---- MODULE Spec2Model ----
(***************************************************************************)
(* A word-level model of the segregated-free-list allocator of src/mm.c.   *)
(*                                                                         *)
(* The heap is an array of 8-byte words.  Every word is kept as the raw    *)
(* unsigned integer the machine stores, so that a word written as a list   *)
(* link or as caller data and later read as a divider (or the reverse)     *)
(* decodes the way the bit-field struct of mm.c decodes it.  size_t,       *)
(* pointers and the divider word are SizeBits wide instead of 64 (TLC's    *)
(* integers are 32 bit); the divider keeps its layout: the size field in   *)
(* the low SizeBits-4 bits, then alloc, prev_alloc, next_alloc, epilogue.  *)
(* All size_t and pointer arithmetic is done modulo 2^SizeBits.            *)
(*                                                                         *)
(* Each public function of mm.c is an operator from a machine state        *)
(* [mem, free_lists, brk, acc, garbage, hung, fatal] to a machine state    *)
(* (and a result); each action of the specification is one whole API call. *)
(***************************************************************************)
EXTENDS Integers, Sequences, FiniteSets, TLC

(***************************************************************************)
(* Bounds of the model.                                                    *)
(***************************************************************************)
\* width in bits of size_t, of a pointer and of the divider word
SizeBits == 16
\* number of 8-byte words the extension primitive can hand out in total
MaxHeapWords == 14
\* the arena of the second specification, in words: room for the prologue and
\* epilogue and a block of 3008 bytes, which belongs in the last list
LargeHeapWords == 378
\* the arena of the third specification, in words: room for the prologue and
\* epilogue, two 160-byte blocks and a 32-byte block between them
MidHeapWords == 46
\* the number of calls whose result the caller of the third specification
\* takes before it stops: mm_init and seven calls of malloc and free
MaxCalls == 8

\* the number of 8-byte words the extension primitive can hand out in all in
\* the run at hand (the size of the arena memlib reserved)
VARIABLE arena

(***************************************************************************)
(* Program constants.                                                      *)
(***************************************************************************)
ALIGNMENT == 16
DIVIDER_SIZE == 8
SEGRAGATED_SIZES == 6
MIN_BLOCK_SIZE == 32
NULL == 0
free_list_sizes == <<32, 48, 64, 96, 2916>>
\* a free_block of four pointers
FREE_BLOCK_FOUR_POINTERS == 4 * DIVIDER_SIZE
\* sizeof(free_block): two pointers
FREE_BLOCK_SIZE == 2 * DIVIDER_SIZE

WORD == 2 ^ SizeBits
SIZE_FIELD == 2 ^ (SizeBits - 4)
SIZE_MAX == WORD - 1
\* (void *)-1, the failure value of the extension primitive
SBRK_FAIL == WORD - 1

\* the extension primitive's arena: first byte and capacity in bytes
mm_heap_lo == 64 * ALIGNMENT
MAX_HEAP == DIVIDER_SIZE * arena
\* the mark that stands in acc for every address outside the arena
OUTSIDE == 0 - 1

Lists == 0 .. (SEGRAGATED_SIZES - 1)

(***************************************************************************)
(* The divider bit-field struct.                                           *)
(***************************************************************************)
Bit(b) == IF b THEN 1 ELSE 0

make_divider(size, alloc, prev_alloc, next_alloc, epilogue) ==
    (size % SIZE_FIELD)
    + SIZE_FIELD * (Bit(alloc) + 2 * Bit(prev_alloc) + 4 * Bit(next_alloc)
                    + 8 * Bit(epilogue))

d_size(w) == w % SIZE_FIELD
d_alloc(w) == (w \div SIZE_FIELD) % 2 = 1
d_prev_alloc(w) == (w \div (2 * SIZE_FIELD)) % 2 = 1
d_next_alloc(w) == (w \div (4 * SIZE_FIELD)) % 2 = 1
d_epilogue(w) == (w \div (8 * SIZE_FIELD)) % 2 = 1

(***************************************************************************)
(* Memory access.  An address inside the arena reads and writes its word;  *)
(* an address outside it (or not word aligned) reads the call's garbage    *)
(* word and drops the write.  acc collects the addresses a call touched.   *)
(***************************************************************************)
InArena(a) == a >= mm_heap_lo /\ a < mm_heap_lo + MAX_HEAP /\ a % DIVIDER_SIZE = 0
Idx(a) == (a - mm_heap_lo) \div DIVIDER_SIZE
Mark(a) == IF a >= mm_heap_lo /\ a < mm_heap_lo + MAX_HEAP THEN a ELSE OUTSIDE

Rd(s, a) == IF InArena(a) THEN s.mem[Idx(a)] ELSE s.garbage
Tch(s, as) == [s EXCEPT !.acc = @ \cup {Mark(a) : a \in as}]
Wr(s, a, v) ==
    [s EXCEPT !.mem = IF InArena(a) THEN [@ EXCEPT ![Idx(a)] = v] ELSE @,
              !.acc = @ \cup {Mark(a)}]

PAdd(a, b) == (a + b) % WORD
PSub(a, b) == (a - b) % WORD

\* Let(e, F) is F(e) with e evaluated once: the sequencing of statements
Let(e, F(_)) == CHOOSE y \in {F(v) : v \in {e}} : TRUE

(***************************************************************************)
(* The extension primitive and the heap bounds (memlib).                   *)
(***************************************************************************)
mm_heap_hi(s) == mm_heap_lo + s.brk - 1

\* sbrk(incr): the arena grows by exactly incr bytes and the old break is
\* returned, or nothing changes and (void *)-1 is returned.  ok is the
\* host's answer when the arena still has room.
mm_sbrk(s, incr, ok) ==
    IF ok /\ s.brk + incr <= MAX_HEAP
    THEN [s |-> [s EXCEPT !.brk = @ + incr], r |-> mm_heap_lo + s.brk]
    ELSE [s |-> s, r |-> SBRK_FAIL]

(***************************************************************************)
(* Helpers of mm.c.                                                        *)
(***************************************************************************)
align(x) == (ALIGNMENT * (((x + ALIGNMENT - 1) % WORD) \div ALIGNMENT)) % WORD

in_heap(s, p) == p <= mm_heap_hi(s) /\ p >= mm_heap_lo

footer_from_header(s, header) ==
    PSub(PAdd(header, d_size(Rd(s, header))), DIVIDER_SIZE)

header_from_data(ptr) == PSub(ptr, DIVIDER_SIZE)

\* data_from_header handing out the header's own address
data_from_header_no_offset(header) == header

data_from_header(header) == PAdd(header, DIVIDER_SIZE)

header_to_header(s, header) == PAdd(header, d_size(Rd(s, header)))

free_block_from_header(header) == PAdd(header, DIVIDER_SIZE)

header_from_free_block(fb) == PSub(fb, DIVIDER_SIZE)

\* the two fields of struct free_block
prev_free_block(fb) == fb
next_free_block(fb) == PAdd(fb, DIVIDER_SIZE)

has_footer(s, header) == ~d_alloc(Rd(s, header))

\* find_free_list answering the first list whatever the size
find_free_list_first(size) == 0

\* index of the list find_free_list returns the address of
find_free_list(size) ==
    IF \E i \in 1 .. (SEGRAGATED_SIZES - 1) : size <= free_list_sizes[i]
    THEN (CHOOSE i \in 1 .. (SEGRAGATED_SIZES - 1) :
              /\ size <= free_list_sizes[i]
              /\ \A j \in 1 .. (i - 1) : size > free_list_sizes[j]) - 1
    ELSE SEGRAGATED_SIZES - 1

\* add_to_free_list making the block the only member of its list
add_to_free_list_alone(s, header) ==
    LET i == find_free_list(d_size(Rd(s, header)))
        new_free_block == PAdd(header, DIVIDER_SIZE)
    IN  Let(Wr(Tch(s, {header}), prev_free_block(new_free_block), NULL), LAMBDA s1 :
        Let(Wr(s1, next_free_block(new_free_block), NULL), LAMBDA s2 :
        [s2 EXCEPT !.free_lists[i] = new_free_block]))

\* add_to_free_list putting the block in the list after the one its size
\* selects
add_to_free_list_next_list(s, header) ==
    LET i == (find_free_list(d_size(Rd(s, header))) + 1) % SEGRAGATED_SIZES
        head == s.free_lists[i]
        new_free_block == PAdd(header, DIVIDER_SIZE)
    IN  Let(Wr(Tch(s, {header}), prev_free_block(new_free_block), NULL), LAMBDA s1 :
        Let(Wr(s1, next_free_block(new_free_block), head), LAMBDA s2 :
        Let(IF head # NULL THEN Wr(s2, prev_free_block(head), new_free_block)
                           ELSE s2, LAMBDA s3 :
        [s3 EXCEPT !.free_lists[i] = new_free_block])))

add_to_free_list(s, header) ==
    LET i == find_free_list(d_size(Rd(s, header)))
        head == s.free_lists[i]
        new_free_block == PAdd(header, DIVIDER_SIZE)
    IN  Let(Wr(Tch(s, {header}), prev_free_block(new_free_block), NULL), LAMBDA s1 :
        Let(Wr(s1, next_free_block(new_free_block), head), LAMBDA s2 :
        Let(IF head # NULL THEN Wr(s2, prev_free_block(head), new_free_block)
                           ELSE s2, LAMBDA s3 :
        [s3 EXCEPT !.free_lists[i] = new_free_block])))

\* remove_from_free_list leaving the prev link of the node behind as it was
remove_from_free_list_prev_kept(s, header) ==
    LET current_free_block == free_block_from_header(header)
        prev == Rd(s, prev_free_block(current_free_block))
        next == Rd(s, next_free_block(current_free_block))
        s0 == Tch(s, {prev_free_block(current_free_block),
                      next_free_block(current_free_block)})
    IN  IF prev # NULL
        THEN Wr(s0, next_free_block(prev), next)
        ELSE [s0 EXCEPT !.free_lists =
                  [i \in Lists |-> IF @[i] = current_free_block
                                   THEN next ELSE @[i]]]

\* remove_from_free_list unlinking nothing
remove_from_free_list_nothing(s, header) ==
    Tch(s, {prev_free_block(free_block_from_header(header)),
            next_free_block(free_block_from_header(header))})

\* remove_from_free_list with the head reset only in the list the block's
\* current size selects, instead of in whichever list it heads
remove_from_free_list_own_class(s, header) ==
    LET current_free_block == free_block_from_header(header)
        prev == Rd(s, prev_free_block(current_free_block))
        next == Rd(s, next_free_block(current_free_block))
        own == find_free_list(d_size(Rd(s, header)))
        s0 == Tch(s, {prev_free_block(current_free_block),
                      next_free_block(current_free_block)})
    IN  Let(IF prev # NULL
            THEN Wr(s0, next_free_block(prev), next)
            ELSE [s0 EXCEPT !.free_lists[own] =
                      IF @ = current_free_block THEN next ELSE @], LAMBDA s1 :
        IF next # NULL THEN Wr(s1, prev_free_block(next), prev) ELSE s1)

remove_from_free_list(s, header) ==
    LET current_free_block == free_block_from_header(header)
        prev == Rd(s, prev_free_block(current_free_block))
        next == Rd(s, next_free_block(current_free_block))
        s0 == Tch(s, {prev_free_block(current_free_block),
                      next_free_block(current_free_block)})
    IN  Let(IF prev # NULL
            THEN Wr(s0, next_free_block(prev), next)
            ELSE [s0 EXCEPT !.free_lists =
                      [i \in Lists |-> IF @[i] = current_free_block
                                       THEN next ELSE @[i]]], LAMBDA s1 :
        IF next # NULL THEN Wr(s1, prev_free_block(next), prev) ELSE s1)

(***************************************************************************)
(* change_alloc, split, coalesce.                                          *)
(***************************************************************************)
\* change_alloc without the copy of the divider into the block's footer
change_alloc_header_only(s, header, dummy_divider) ==
    Let(Wr(s, header, dummy_divider), LAMBDA s2 :
    Let(header_to_header(s2, header), LAMBDA next_header :
    Let(Wr(s2, next_header,
           make_divider(d_size(Rd(s2, next_header)), d_alloc(Rd(s2, next_header)),
                        d_alloc(Rd(s2, header)), d_next_alloc(Rd(s2, next_header)),
                        d_epilogue(Rd(s2, next_header)))), LAMBDA s3 :
    Let(IF ~d_epilogue(Rd(s3, next_header)) /\ has_footer(s3, next_header)
        THEN Wr(s3, footer_from_header(s3, next_header), Rd(s3, next_header))
        ELSE s3, LAMBDA s4 :
    Let(IF ~d_prev_alloc(Rd(s4, header))
        THEN LET prev_footer == PSub(header, DIVIDER_SIZE)
                 pf == Rd(s4, prev_footer)
             IN  Let(Wr(s4, prev_footer,
                        make_divider(d_size(pf), d_alloc(pf), d_prev_alloc(pf),
                                     d_alloc(Rd(s4, header)), d_epilogue(pf))),
                     LAMBDA s5 :
                     Wr(s5, PAdd(PSub(prev_footer, d_size(Rd(s5, prev_footer))),
                                 DIVIDER_SIZE),
                        Rd(s5, prev_footer)))
        ELSE s4, LAMBDA s6 :
    [s |-> s6,
     r |-> IF has_footer(s6, header) THEN footer_from_header(s6, header)
                                     ELSE NULL])))))

\* change_alloc refreshing the block before without the test of the P bit
change_alloc_prev_untested(s, header, dummy_divider) ==
    Let(Wr(s, header, dummy_divider), LAMBDA s1 :
    Let(IF has_footer(s1, header)
        THEN Wr(s1, footer_from_header(s1, header), dummy_divider)
        ELSE s1, LAMBDA s2 :
    Let(header_to_header(s2, header), LAMBDA next_header :
    Let(Wr(s2, next_header,
           make_divider(d_size(Rd(s2, next_header)), d_alloc(Rd(s2, next_header)),
                        d_alloc(Rd(s2, header)), d_next_alloc(Rd(s2, next_header)),
                        d_epilogue(Rd(s2, next_header)))), LAMBDA s3 :
    Let(IF ~d_epilogue(Rd(s3, next_header)) /\ has_footer(s3, next_header)
        THEN Wr(s3, footer_from_header(s3, next_header), Rd(s3, next_header))
        ELSE s3, LAMBDA s4 :
    Let(LET prev_footer == PSub(header, DIVIDER_SIZE)
            pf == Rd(s4, prev_footer)
        IN  Let(Wr(s4, prev_footer,
                   make_divider(d_size(pf), d_alloc(pf), d_prev_alloc(pf),
                                d_alloc(Rd(s4, header)), d_epilogue(pf))),
                LAMBDA s5 :
                Wr(s5, PAdd(PSub(prev_footer, d_size(Rd(s5, prev_footer))),
                            DIVIDER_SIZE),
                   Rd(s5, prev_footer))), LAMBDA s6 :
    [s |-> s6,
     r |-> IF has_footer(s6, header) THEN footer_from_header(s6, header)
                                     ELSE NULL]))))))

change_alloc(s, header, dummy_divider) ==
    Let(Wr(s, header, dummy_divider), LAMBDA s1 :
    Let(IF has_footer(s1, header)
        THEN Wr(s1, footer_from_header(s1, header), dummy_divider)
        ELSE s1, LAMBDA s2 :
    Let(header_to_header(s2, header), LAMBDA next_header :
    Let(Wr(s2, next_header,
           make_divider(d_size(Rd(s2, next_header)), d_alloc(Rd(s2, next_header)),
                        d_alloc(Rd(s2, header)), d_next_alloc(Rd(s2, next_header)),
                        d_epilogue(Rd(s2, next_header)))), LAMBDA s3 :
    Let(IF ~d_epilogue(Rd(s3, next_header)) /\ has_footer(s3, next_header)
        THEN Wr(s3, footer_from_header(s3, next_header), Rd(s3, next_header))
        ELSE s3, LAMBDA s4 :
    Let(IF ~d_prev_alloc(Rd(s4, header))
        THEN LET prev_footer == PSub(header, DIVIDER_SIZE)
                 pf == Rd(s4, prev_footer)
             IN  Let(Wr(s4, prev_footer,
                        make_divider(d_size(pf), d_alloc(pf), d_prev_alloc(pf),
                                     d_alloc(Rd(s4, header)), d_epilogue(pf))),
                     LAMBDA s5 :
                     Wr(s5, PAdd(PSub(prev_footer, d_size(Rd(s5, prev_footer))),
                                 DIVIDER_SIZE),
                        Rd(s5, prev_footer)))
        ELSE s4, LAMBDA s6 :
    [s |-> s6,
     r |-> IF has_footer(s6, header) THEN footer_from_header(s6, header)
                                     ELSE NULL]))))))

\* split leaving the prefix it hands out marked free
split_prefix_left_free(s, header, size) ==
    LET old_header == Rd(s, header)
        old_footer == footer_from_header(s, header)
        remaining_size == PSub(d_size(old_header), size)
    IN  Let(Wr(s, header,
               make_divider(size, FALSE, d_prev_alloc(old_header), FALSE,
                            d_epilogue(old_header))), LAMBDA s1 :
        Let(header_to_header(s1, header), LAMBDA new_header :
        Let(Wr(s1, new_header,
               make_divider(remaining_size, FALSE, d_alloc(Rd(s1, header)),
                            d_next_alloc(old_header), d_epilogue(Rd(s1, header)))),
            LAMBDA s2 :
        Let(Wr(s2, old_footer, Rd(s2, new_header)), LAMBDA s3 :
        Let(change_alloc(s3, header, Rd(s3, header)).s, LAMBDA s4 :
        Let(change_alloc(s4, new_header, Rd(s4, new_header)).s, LAMBDA s5 :
        [s |-> add_to_free_list(s5, new_header), r |-> new_header]))))))

\* split without the insertion of the suffix in a list
split_suffix_unlisted(s, header, size) ==
    LET old_header == Rd(s, header)
        old_footer == footer_from_header(s, header)
        remaining_size == PSub(d_size(old_header), size)
    IN  Let(Wr(s, header,
               make_divider(size, TRUE, d_prev_alloc(old_header), FALSE,
                            d_epilogue(old_header))), LAMBDA s1 :
        Let(header_to_header(s1, header), LAMBDA new_header :
        Let(Wr(s1, new_header,
               make_divider(remaining_size, FALSE, d_alloc(Rd(s1, header)),
                            d_next_alloc(old_header), d_epilogue(Rd(s1, header)))),
            LAMBDA s2 :
        Let(Wr(s2, old_footer, Rd(s2, new_header)), LAMBDA s3 :
        Let(change_alloc(s3, header, Rd(s3, header)).s, LAMBDA s4 :
        Let(change_alloc(s4, new_header, Rd(s4, new_header)).s, LAMBDA s5 :
        [s |-> s5, r |-> new_header]))))))

split(s, header, size) ==
    LET old_header == Rd(s, header)
        old_footer == footer_from_header(s, header)
        remaining_size == PSub(d_size(old_header), size)
    IN  Let(Wr(s, header,
               make_divider(size, TRUE, d_prev_alloc(old_header), FALSE,
                            d_epilogue(old_header))), LAMBDA s1 :
        Let(header_to_header(s1, header), LAMBDA new_header :
        Let(Wr(s1, new_header,
               make_divider(remaining_size, FALSE, d_alloc(Rd(s1, header)),
                            d_next_alloc(old_header), d_epilogue(Rd(s1, header)))),
            LAMBDA s2 :
        Let(Wr(s2, old_footer, Rd(s2, new_header)), LAMBDA s3 :
        Let(change_alloc(s3, header, Rd(s3, header)).s, LAMBDA s4 :
        Let(change_alloc(s4, new_header, Rd(s4, new_header)).s, LAMBDA s5 :
        [s |-> add_to_free_list(s5, new_header), r |-> new_header]))))))

\* coalesce leaving the size of the first block as it was
coalesce_size_kept(s, header, footer) ==
    LET h == Rd(s, header)
        f == Rd(s, footer)
    IN  Let(Wr(Tch(s, {footer}), header,
               make_divider(d_size(h), FALSE, d_prev_alloc(h), d_next_alloc(f),
                            d_epilogue(h))), LAMBDA s1 :
        Let(IF has_footer(s1, header)
            THEN Wr(s1, footer_from_header(s1, header), Rd(s1, header))
            ELSE s1, LAMBDA s2 :
        [s |-> change_alloc(s2, header, Rd(s2, header)).s, r |-> header]))

coalesce(s, header, footer) ==
    LET new_size == PSub(footer, header)
        h == Rd(s, header)
        f == Rd(s, footer)
    IN  Let(Wr(Tch(s, {footer}), header,
               make_divider(new_size, FALSE, d_prev_alloc(h), d_next_alloc(f),
                            d_epilogue(h))), LAMBDA s1 :
        Let(IF has_footer(s1, header)
            THEN Wr(s1, footer_from_header(s1, header), Rd(s1, header))
            ELSE s1, LAMBDA s2 :
        [s |-> change_alloc(s2, header, Rd(s2, header)).s, r |-> header]))

(***************************************************************************)
(* Placement.                                                              *)
(***************************************************************************)
\* the margin test passing for every block that is large enough
within_margin_unbounded(csize, size) == csize >= size

\* size <= s + s * 0.225 of the double comparison, in integers
within_margin(csize, size) == csize >= size /\ 1000 * csize <= 1225 * size

\* The while loop of find_free_space over one list: current_free_block is the
\* cursor, best_fit the candidate so far.  fuel bounds the walk; a list that
\* does not end within it is a walk that never ends (hung).
RECURSIVE scan_list(_, _, _, _, _)
scan_list(s, size, current_free_block, best_fit, fuel) ==
    IF current_free_block = NULL THEN [s |-> s, r |-> best_fit]
    ELSE IF fuel = 0 THEN [s |-> [s EXCEPT !.hung = TRUE], r |-> NULL]
    ELSE
      LET current_header == header_from_free_block(current_free_block)
          inh == in_heap(s, current_free_block)
          ch == Rd(s, current_header)
          fits == inh /\ ~d_alloc(ch) /\ d_size(ch) >= size
          better == fits /\ (best_fit = NULL
                             \/ d_size(ch) < d_size(Rd(s, header_from_free_block(best_fit))))
      IN  Let(Tch(s, (IF inh THEN {current_header} ELSE {})
                     \cup (IF fits /\ best_fit # NULL
                           THEN {header_from_free_block(best_fit)} ELSE {})),
              LAMBDA s1 :
          IF better /\ within_margin(d_size(ch), size)
          THEN [s |-> s1, r |-> current_free_block]
          ELSE Let(Tch(s1, {next_free_block(current_free_block)}), LAMBDA s2 :
               Let(Rd(s, next_free_block(current_free_block)), LAMBDA nxt :
               Let(IF better THEN current_free_block ELSE best_fit, LAMBDA bf :
               scan_list(s2, size, nxt, bf, fuel - 1)))))

\* The for loop of find_free_space from list i on.
RECURSIVE find_free_space_from(_, _, _)
find_free_space_from(s, size, i) ==
    IF i >= SEGRAGATED_SIZES THEN [s |-> s, r |-> NULL]
    ELSE IF ~(i = SEGRAGATED_SIZES - 1 \/ size <= free_list_sizes[i + 1])
    THEN find_free_space_from(s, size, i + 1)
    ELSE
      Let(scan_list(s, size, s.free_lists[i], NULL, arena), LAMBDA sc :
      LET best_fit == sc.r
          current_header == header_from_free_block(best_fit)
          inh == in_heap(sc.s, best_fit)
          ch == Rd(sc.s, current_header)
      IN  IF sc.s.hung THEN [s |-> sc.s, r |-> NULL]
          ELSE IF best_fit = NULL THEN find_free_space_from(sc.s, size, i + 1)
          ELSE
            Let(IF inh THEN Tch(sc.s, {current_header}) ELSE sc.s, LAMBDA s1 :
            IF inh /\ ~d_alloc(ch) /\ d_size(ch) >= size
            THEN IF d_size(ch) > (size + DIVIDER_SIZE + FREE_BLOCK_SIZE) % WORD
                 THEN [s |-> split(s1, current_header, size).s, r |-> current_header]
                 ELSE [s |-> change_alloc(s1, current_header,
                                 make_divider(d_size(ch), TRUE, d_prev_alloc(ch),
                                              d_next_alloc(ch), d_epilogue(ch))).s,
                       r |-> current_header]
            ELSE find_free_space_from(s1, size, i + 1)))

\* find_free_space trying list 0 after the others instead of before them
find_free_space_first_list_last(s, size) ==
    Let(find_free_space_from(s, size, 1), LAMBDA later :
    IF later.r # NULL \/ later.s.hung THEN later
    ELSE find_free_space_from(later.s, size, 0))

find_free_space(s, size) == find_free_space_from(s, size, 0)

(***************************************************************************)
(* Heap growth.                                                            *)
(***************************************************************************)
\* increase_heap asking the primitive for the block and one more divider
increase_heap_extra_divider(s, size, ok) ==
    Let(mm_sbrk(s, (size + DIVIDER_SIZE) % WORD, ok), LAMBDA ext :
    IF ext.r = SBRK_FAIL THEN [s |-> ext.s, r |-> NULL]
    ELSE
      LET current_header == PSub(ext.r, DIVIDER_SIZE)
      IN  Let(Wr(ext.s, current_header, make_divider(size, TRUE, TRUE, TRUE, FALSE)),
              LAMBDA s1 :
          Let(Wr(s1, header_to_header(s1, current_header),
                 make_divider(0, TRUE, TRUE, TRUE, TRUE)), LAMBDA s2 :
          [s |-> change_alloc(s2, current_header, Rd(s2, current_header)).s,
           r |-> current_header])))

\* increase_heap without the store of the new epilogue
increase_heap_no_epilogue(s, size, ok) ==
    Let(mm_sbrk(s, size, ok), LAMBDA ext :
    IF ext.r = SBRK_FAIL THEN [s |-> ext.s, r |-> NULL]
    ELSE
      LET current_header == PSub(ext.r, DIVIDER_SIZE)
      IN  Let(Wr(ext.s, current_header, make_divider(size, TRUE, TRUE, TRUE, FALSE)),
              LAMBDA s1 :
          [s |-> change_alloc(s1, current_header, Rd(s1, current_header)).s,
           r |-> current_header]))

\* increase_heap stamping the new block's header over the current epilogue
\* before the extension primitive has answered
increase_heap_header_first(s, size, ok) ==
    LET current_header == PSub(PAdd(mm_heap_hi(s), 1), DIVIDER_SIZE)
    IN  Let(Wr(s, current_header, make_divider(size, TRUE, TRUE, TRUE, FALSE)),
            LAMBDA s1 :
        Let(mm_sbrk(s1, size, ok), LAMBDA ext :
        IF ext.r = SBRK_FAIL THEN [s |-> ext.s, r |-> NULL]
        ELSE
          Let(Wr(ext.s, header_to_header(ext.s, current_header),
                 make_divider(0, TRUE, TRUE, TRUE, TRUE)), LAMBDA s2 :
          [s |-> change_alloc(s2, current_header, Rd(s2, current_header)).s,
           r |-> current_header])))

\* increase_heap writing the new epilogue with a cleared A bit
increase_heap_epilogue_free(s, size, ok) ==
    Let(mm_sbrk(s, size, ok), LAMBDA ext :
    IF ext.r = SBRK_FAIL THEN [s |-> ext.s, r |-> NULL]
    ELSE
      LET current_header == PSub(ext.r, DIVIDER_SIZE)
      IN  Let(Wr(ext.s, current_header, make_divider(size, TRUE, TRUE, TRUE, FALSE)),
              LAMBDA s1 :
          Let(Wr(s1, header_to_header(s1, current_header),
                 make_divider(0, FALSE, TRUE, TRUE, TRUE)), LAMBDA s2 :
          [s |-> change_alloc(s2, current_header, Rd(s2, current_header)).s,
           r |-> current_header])))

\* increase_heap giving the new block a cleared P bit
increase_heap_prev_unset(s, size, ok) ==
    Let(mm_sbrk(s, size, ok), LAMBDA ext :
    IF ext.r = SBRK_FAIL THEN [s |-> ext.s, r |-> NULL]
    ELSE
      LET current_header == PSub(ext.r, DIVIDER_SIZE)
      IN  Let(Wr(ext.s, current_header, make_divider(size, TRUE, FALSE, TRUE, FALSE)),
              LAMBDA s1 :
          Let(Wr(s1, header_to_header(s1, current_header),
                 make_divider(0, TRUE, TRUE, TRUE, TRUE)), LAMBDA s2 :
          [s |-> change_alloc(s2, current_header, Rd(s2, current_header)).s,
           r |-> current_header])))

increase_heap(s, size, ok) ==
    Let(mm_sbrk(s, size, ok), LAMBDA ext :
    IF ext.r = SBRK_FAIL THEN [s |-> ext.s, r |-> NULL]
    ELSE
      LET current_header == PSub(ext.r, DIVIDER_SIZE)
      IN  Let(Wr(ext.s, current_header, make_divider(size, TRUE, TRUE, TRUE, FALSE)),
              LAMBDA s1 :
          Let(Wr(s1, header_to_header(s1, current_header),
                 make_divider(0, TRUE, TRUE, TRUE, TRUE)), LAMBDA s2 :
          [s |-> change_alloc(s2, current_header, Rd(s2, current_header)).s,
           r |-> current_header])))

(***************************************************************************)
(* malloc.  how tells the path taken: "zero" (size 0), "placed" (a free    *)
(* block was taken whole), "split" (a free block was split and its prefix  *)
(* taken), "grown" (the heap was extended), "failed" (the                  *)
(* extension primitive failed); hdr is free_header.                        *)
(***************************************************************************)
\* the size adjustment without the clamp to 32
request_size_unclamped(size) == align((size + DIVIDER_SIZE) % WORD)

request_size(size) ==
    LET a == align((size + DIVIDER_SIZE) % WORD)
    IN  IF a < MIN_BLOCK_SIZE THEN MIN_BLOCK_SIZE ELSE a

\* malloc without the test for a request of 0 bytes
malloc_zero_served(s, size, ok) ==
    Let(find_free_space(s, request_size(size)), LAMBDA found :
    IF found.s.hung
    THEN [s |-> found.s, r |-> NULL, hdr |-> NULL, how |-> "hung"]
    ELSE IF found.r = NULL
    THEN Let(increase_heap(found.s, request_size(size), ok), LAMBDA grown :
         [s |-> grown.s, r |-> data_from_header(grown.r), hdr |-> grown.r,
          how |-> IF grown.r = NULL THEN "failed" ELSE "grown"])
    ELSE [s |-> remove_from_free_list(found.s, found.r),
          r |-> data_from_header(found.r), hdr |-> found.r,
          how |-> IF d_size(Rd(found.s, found.r)) < d_size(Rd(s, found.r))
                  THEN "split" ELSE "placed"])

malloc(s, size, ok) ==
    IF size = 0 THEN [s |-> s, r |-> NULL, hdr |-> NULL, how |-> "zero"]
    ELSE
      Let(find_free_space(s, request_size(size)), LAMBDA found :
      IF found.s.hung
      THEN [s |-> found.s, r |-> NULL, hdr |-> NULL, how |-> "hung"]
      ELSE IF found.r = NULL
      THEN Let(increase_heap(found.s, request_size(size), ok), LAMBDA grown :
           [s |-> grown.s, r |-> data_from_header(grown.r), hdr |-> grown.r,
            how |-> IF grown.r = NULL THEN "failed" ELSE "grown"])
      ELSE [s |-> remove_from_free_list(found.s, found.r),
            r |-> data_from_header(found.r), hdr |-> found.r,
            how |-> IF d_size(Rd(found.s, found.r)) < d_size(Rd(s, found.r))
                    THEN "split" ELSE "placed"])

(***************************************************************************)
(* free.                                                                   *)
(***************************************************************************)
free(s, ptr) ==
    IF ptr = NULL THEN s
    ELSE
      LET current_header == header_from_data(ptr)
          next_header == header_to_header(s, current_header)
          ch == Rd(s, current_header)
          prev_footer == PSub(current_header, DIVIDER_SIZE)
      IN  Let(Wr(Tch(s, {next_header}), current_header,
                 make_divider(d_size(ch), FALSE, d_prev_alloc(ch),
                              d_alloc(Rd(s, next_header)), d_epilogue(ch))),
              LAMBDA s1 :
          Let(IF has_footer(s1, current_header)
              THEN Let(change_alloc(s1, current_header, Rd(s1, current_header)),
                       LAMBDA ca :
                       Wr(Tch(ca.s, {ca.r}),
                          footer_from_header(ca.s, current_header), Rd(ca.s, ca.r)))
              ELSE s1, LAMBDA s2 :
          Let(Tch(s2, {prev_footer}), LAMBDA s3 :
          LET prev_header == PAdd(PSub(prev_footer, d_size(Rd(s3, prev_footer))),
                                  DIVIDER_SIZE)
              c2 == Rd(s3, current_header)
          IN  Let(IF ~d_prev_alloc(c2) /\ ~d_next_alloc(c2)
                     /\ ~d_epilogue(Rd(s3, next_header))
                  THEN Let(remove_from_free_list(s3, prev_header), LAMBDA b1 :
                       Let(remove_from_free_list(b1, next_header), LAMBDA b2 :
                       coalesce(b2, prev_header, header_to_header(b2, next_header))))
                  ELSE IF ~d_prev_alloc(c2)
                  THEN Let(remove_from_free_list(s3, prev_header), LAMBDA p1 :
                       coalesce(p1, prev_header, header_to_header(p1, current_header)))
                  ELSE IF ~d_next_alloc(c2)
                  THEN Let(remove_from_free_list(s3, next_header), LAMBDA n1 :
                       coalesce(n1, current_header, header_to_header(n1, next_header)))
                  ELSE [s |-> s3, r |-> current_header], LAMBDA merged :
              add_to_free_list(merged.s, merged.r)))))

(***************************************************************************)
(* The byte primitives.  They work on whole words here: a word partly      *)
(* covered by the n bytes counts as covered.  A range that runs to the top *)
(* of the address space cannot complete (fatal).                           *)
(***************************************************************************)
ArenaAddrs == {mm_heap_lo + DIVIDER_SIZE * j : j \in 0 .. (arena - 1)}
Covered(a, start, n) == a >= start /\ a < start + n
LeavesArena(start, n) ==
    n > 0 /\ (start < mm_heap_lo \/ start + n > mm_heap_lo + MAX_HEAP
              \/ start % DIVIDER_SIZE # 0)

memcpy(s, dst, src, n) ==
    [s EXCEPT
       !.mem = [j \in DOMAIN @ |->
                  LET a == mm_heap_lo + DIVIDER_SIZE * j
                  IN  IF Covered(a, dst, n) /\ InArena(dst)
                      THEN Rd(s, src + (a - dst)) ELSE @[j]],
       !.acc = @ \cup {a \in ArenaAddrs : Covered(a, dst, n) \/ Covered(a, src, n)}
                 \cup (IF LeavesArena(dst, n) \/ LeavesArena(src, n)
                       THEN {OUTSIDE} ELSE {}),
       !.fatal = @ \/ (n > 0 /\ (dst + n >= WORD \/ src + n >= WORD))]

memset(s, dst, c, n) ==
    [s EXCEPT
       !.mem = [j \in DOMAIN @ |->
                  LET a == mm_heap_lo + DIVIDER_SIZE * j
                  IN  IF Covered(a, dst, n) /\ InArena(dst) THEN c ELSE @[j]],
       !.acc = @ \cup {a \in ArenaAddrs : Covered(a, dst, n)}
                 \cup (IF LeavesArena(dst, n) THEN {OUTSIDE} ELSE {}),
       !.fatal = @ \/ (n > 0 /\ dst + n >= WORD)]

(***************************************************************************)
(* realloc, calloc, mm_init.                                               *)
(***************************************************************************)
transfer(s, old_header, new_header) ==
    LET new_data_start == data_from_header(new_header)
        old_data_start == data_from_header(old_header)
        oh == Rd(s, old_header)
        nh == Rd(s, new_header)
        transfer_size == IF d_size(oh) < d_size(nh)
                         THEN PSub(d_size(oh), DIVIDER_SIZE)
                         ELSE PSub(d_size(nh), DIVIDER_SIZE)
    IN  memcpy(Tch(s, {old_header, new_header}), new_data_start, old_data_start,
               transfer_size)

\* realloc moving the block even when it is large enough
realloc_always_moves(s, oldptr, size, ok) ==
    IF oldptr = NULL THEN malloc(s, size, ok)
    ELSE IF size = 0
    THEN [s |-> free(s, oldptr), r |-> NULL, hdr |-> NULL, how |-> "freed"]
    ELSE
      Let(malloc(Tch(s, {header_from_data(oldptr)}), size, ok), LAMBDA m :
      IF m.how = "hung" THEN m
      ELSE Let(transfer(m.s, header_from_data(oldptr), header_from_data(m.r)),
               LAMBDA t :
               [s |-> free(t, oldptr),
                r |-> data_from_header(header_from_data(m.r)),
                hdr |-> header_from_data(m.r), how |-> m.how]))

\* realloc answering null to a null pointer instead of allocating
realloc_null_refused(s, oldptr, size, ok) ==
    IF oldptr = NULL THEN [s |-> s, r |-> NULL, hdr |-> NULL, how |-> "zero"]
    ELSE IF size = 0
    THEN [s |-> free(s, oldptr), r |-> NULL, hdr |-> NULL, how |-> "freed"]
    ELSE IF PSub(d_size(Rd(s, header_from_data(oldptr))), DIVIDER_SIZE) >= size
    THEN [s |-> Tch(s, {header_from_data(oldptr)}), r |-> oldptr,
          hdr |-> header_from_data(oldptr), how |-> "same"]
    ELSE
      Let(malloc(Tch(s, {header_from_data(oldptr)}), size, ok), LAMBDA m :
      IF m.how = "hung" THEN m
      ELSE Let(transfer(m.s, header_from_data(oldptr), header_from_data(m.r)),
               LAMBDA t :
               [s |-> free(t, oldptr),
                r |-> data_from_header(header_from_data(m.r)),
                hdr |-> header_from_data(m.r), how |-> m.how]))

\* realloc answering null to a size of 0 without freeing the block
realloc_zero_keeps_block(s, oldptr, size, ok) ==
    IF oldptr = NULL THEN malloc(s, size, ok)
    ELSE IF size = 0
    THEN [s |-> s, r |-> NULL, hdr |-> NULL, how |-> "freed"]
    ELSE IF PSub(d_size(Rd(s, header_from_data(oldptr))), DIVIDER_SIZE) >= size
    THEN [s |-> Tch(s, {header_from_data(oldptr)}), r |-> oldptr,
          hdr |-> header_from_data(oldptr), how |-> "same"]
    ELSE
      Let(malloc(Tch(s, {header_from_data(oldptr)}), size, ok), LAMBDA m :
      IF m.how = "hung" THEN m
      ELSE Let(transfer(m.s, header_from_data(oldptr), header_from_data(m.r)),
               LAMBDA t :
               [s |-> free(t, oldptr),
                r |-> data_from_header(header_from_data(m.r)),
                hdr |-> header_from_data(m.r), how |-> m.how]))

realloc(s, oldptr, size, ok) ==
    IF oldptr = NULL THEN malloc(s, size, ok)
    ELSE IF size = 0
    THEN [s |-> free(s, oldptr), r |-> NULL, hdr |-> NULL, how |-> "freed"]
    ELSE IF PSub(d_size(Rd(s, header_from_data(oldptr))), DIVIDER_SIZE) >= size
    THEN [s |-> Tch(s, {header_from_data(oldptr)}), r |-> oldptr,
          hdr |-> header_from_data(oldptr), how |-> "same"]
    ELSE
      Let(malloc(Tch(s, {header_from_data(oldptr)}), size, ok), LAMBDA m :
      IF m.how = "hung" THEN m
      ELSE Let(transfer(m.s, header_from_data(oldptr), header_from_data(m.r)),
               LAMBDA t :
               [s |-> free(t, oldptr),
                r |-> data_from_header(header_from_data(m.r)),
                hdr |-> header_from_data(m.r), how |-> m.how]))

calloc(s, nmemb, size, ok) ==
    Let(malloc(s, (size * nmemb) % WORD, ok), LAMBDA m :
    IF m.r # NULL /\ m.how # "hung"
    THEN [m EXCEPT !.s = memset(m.s, m.r, 0, (size * nmemb) % WORD)]
    ELSE m)

\* mm_init with the dividers written before the extension's answer is tested
mm_init_writes_first(s, ok) ==
    Let(mm_sbrk(s, 2 * DIVIDER_SIZE, ok), LAMBDA ext :
    Let(Wr(ext.s, mm_heap_lo,
           make_divider(DIVIDER_SIZE, TRUE, TRUE, TRUE, FALSE)), LAMBDA s1 :
    Let(Wr(s1, PAdd(mm_heap_lo, DIVIDER_SIZE),
           make_divider(0, TRUE, TRUE, TRUE, TRUE)), LAMBDA s2 :
    [s |-> [s2 EXCEPT !.free_lists = [i \in Lists |-> NULL]],
     r |-> ext.r # SBRK_FAIL])))

mm_init(s, ok) ==
    Let(mm_sbrk(s, 2 * DIVIDER_SIZE, ok), LAMBDA ext :
    IF ext.r = SBRK_FAIL THEN [s |-> ext.s, r |-> FALSE]
    ELSE
      LET prologue_header == ext.r
          epilogue_header == PAdd(prologue_header, DIVIDER_SIZE)
      IN  Let(Wr(ext.s, prologue_header,
                 make_divider(DIVIDER_SIZE, TRUE, TRUE, TRUE, FALSE)), LAMBDA s1 :
          Let(Wr(s1, epilogue_header, make_divider(0, TRUE, TRUE, TRUE, TRUE)),
              LAMBDA s2 :
          [s |-> [s2 EXCEPT !.free_lists = [i \in Lists |-> NULL]], r |-> TRUE])))

(***************************************************************************)
(* The heap checker, as it is compiled with DEBUG defined.  Each operator  *)
(* answers the heap it leaves (only acc can differ) and its bool.  fuel    *)
(* bounds a walk; a walk that does not end within it never ends (hung).    *)
(***************************************************************************)
\* compare_divider on two dividers of the heap s
compare_divider_in(s, header, footer) ==
    /\ d_size(Rd(s, header)) = d_size(Rd(s, footer))
    /\ d_alloc(Rd(s, header)) = d_alloc(Rd(s, footer))
    /\ d_prev_alloc(Rd(s, header)) = d_prev_alloc(Rd(s, footer))
    /\ d_next_alloc(Rd(s, header)) = d_next_alloc(Rd(s, footer))
    /\ d_epilogue(Rd(s, header)) = d_epilogue(Rd(s, footer))

\* The inner while loop of traverse_heap: is current_header met on the walk
\* from current_free_block to NULL?
RECURSIVE found_in_list(_, _, _, _)
found_in_list(s, current_free_block, current_header, fuel) ==
    IF current_free_block = NULL THEN [s |-> s, r |-> FALSE]
    ELSE IF fuel = 0 THEN [s |-> [s EXCEPT !.hung = TRUE], r |-> FALSE]
    ELSE IF header_from_free_block(current_free_block) = current_header
    THEN [s |-> s, r |-> TRUE]
    ELSE Let(Tch(s, {next_free_block(current_free_block)}), LAMBDA s1 :
         Let(Rd(s, next_free_block(current_free_block)), LAMBDA nxt :
         found_in_list(s1, nxt, current_header, fuel - 1)))

\* The outer while loop of traverse_heap from current_header on.
RECURSIVE traverse_heap_from(_, _, _)
traverse_heap_from(s, current_header, fuel) ==
    Let(Tch(s, {current_header}), LAMBDA s1 :
    Let(Rd(s, current_header), LAMBDA ch :
    IF d_epilogue(ch) THEN [s |-> s1, r |-> TRUE]
    ELSE IF fuel = 0 THEN [s |-> [s1 EXCEPT !.hung = TRUE], r |-> FALSE]
    ELSE IF ~in_heap(s, current_header) THEN [s |-> s1, r |-> FALSE]
    ELSE IF d_alloc(ch)
    THEN traverse_heap_from(s1, header_to_header(s, current_header), fuel - 1)
    ELSE
      Let(Tch(s1, {footer_from_header(s, current_header)}), LAMBDA s2 :
      IF ~compare_divider_in(s, current_header,
                             footer_from_header(s, current_header))
      THEN [s |-> s2, r |-> FALSE]
      ELSE Let(found_in_list(s2, s.free_lists[find_free_list(d_size(ch))],
                             current_header, arena), LAMBDA f :
           IF f.s.hung \/ ~f.r THEN [s |-> f.s, r |-> FALSE]
           ELSE traverse_heap_from(f.s, header_to_header(s, current_header),
                                   fuel - 1)))))

traverse_heap(s) ==
    traverse_heap_from(Tch(s, {mm_heap_lo}), header_to_header(s, mm_heap_lo),
                       arena + 1)

\* The while loop of tranverse_free_list over one list.
RECURSIVE nodes_are_free(_, _, _)
nodes_are_free(s, current_free_block, fuel) ==
    IF current_free_block = NULL THEN [s |-> s, r |-> TRUE]
    ELSE IF fuel = 0 THEN [s |-> [s EXCEPT !.hung = TRUE], r |-> FALSE]
    ELSE
      LET current_header == header_from_free_block(current_free_block)
          inh == in_heap(s, current_free_block)
      IN  Let(IF inh THEN Tch(s, {current_header}) ELSE s, LAMBDA s1 :
          IF ~inh \/ d_alloc(Rd(s, current_header))
          THEN [s |-> s1, r |-> FALSE]
          ELSE Let(Tch(s1, {next_free_block(current_free_block)}), LAMBDA s2 :
               Let(Rd(s, next_free_block(current_free_block)), LAMBDA nxt :
               nodes_are_free(s2, nxt, fuel - 1))))

\* The for loop of tranverse_free_list from list i on.
RECURSIVE tranverse_free_list_from(_, _)
tranverse_free_list_from(s, i) ==
    IF i >= SEGRAGATED_SIZES THEN [s |-> s, r |-> TRUE]
    ELSE Let(nodes_are_free(s, s.free_lists[i], arena), LAMBDA w :
         IF w.s.hung \/ ~w.r THEN [s |-> w.s, r |-> FALSE]
         ELSE tranverse_free_list_from(w.s, i + 1))

tranverse_free_list(s) == tranverse_free_list_from(s, 0)

mm_checkheap(s, line_number) ==
    Let(traverse_heap(s), LAMBDA t :
    IF ~t.r THEN t ELSE tranverse_free_list(t.s))

\* realloc as it is compiled with DEBUG defined: on the path that moves the
\* block, the checker runs once the old block is freed and its answer is
\* dropped
realloc_debug(s, oldptr, size, ok) ==
    Let(realloc(s, oldptr, size, ok), LAMBDA m :
    IF oldptr # NULL /\ size # 0 /\ m.how \notin {"same", "hung"}
    THEN [m EXCEPT !.s = mm_checkheap(m.s, 803).s]
    ELSE m)

(***************************************************************************)
(* The state machine: one action per public API call.                      *)
(*   mem, free_lists, brk : the heap words, the six list heads, the number *)
(*                          of bytes obtained from the extension primitive *)
(*   status : "uninit" before mm_init succeeded, then "ready"; "crashed"   *)
(*            or "hung" once a call did not return (the heap is then left  *)
(*            as it was when the call began)                               *)
(*   live   : the payload pointers the caller holds                        *)
(*   last   : the call that just returned, its arguments, its result and   *)
(*            the path it took; op = "none" once the caller has taken the  *)
(*            result and is about to make its next call                    *)
(*   acc    : the addresses that call read or wrote                        *)
(*   fill   : what a word nobody wrote yet holds, in the arena and outside *)
(*   calls  : the calls so far whose result the caller has taken, where it *)
(*            counts them                                                  *)
(***************************************************************************)
VARIABLES mem, free_lists, brk, status, live, last, acc, fill, calls

vars == <<mem, free_lists, brk, status, live, last, acc, fill, arena, calls>>

\* contents of memory nobody wrote yet
FillWords == {0, SIZE_MAX}
\* request sizes the caller draws from: nothing, one byte (a 32-byte block),
\* 40 bytes (a 48-byte block), and the largest size_t
Sizes == {0, 1, 40, SIZE_MAX}
\* (nmemb, size) pairs for calloc; the last two products exceed SIZE_MAX
CallocArgs == {<<0, 1>>, <<1, 0>>, <<1, 40>>, <<2, 12>>, <<WORD \div 2, 2>>,
               <<(WORD \div 4) + 1, 4>>}

S0 == [mem |-> mem, free_lists |-> free_lists, brk |-> brk, acc |-> {},
       garbage |-> fill, hung |-> FALSE, fatal |-> FALSE]

Call(op, p, n, m) == [op |-> op, p |-> p, n |-> n, m |-> m, ret |-> NULL, how |-> ""]

\* A call that touched an address outside the arena either faults there or,
\* unless the access cannot complete, goes on with the access dropped.
Outcomes(s) ==
    IF s.hung THEN {"hung"}
    ELSE IF OUTSIDE \in s.acc
         THEN IF s.fatal THEN {"crashed"} ELSE {"crashed", "ready"}
    ELSE {"ready"}

Step(res, call, newlive) ==
    \E out \in Outcomes(res.s) :
          /\ status' = out
          /\ acc' = res.s.acc
          /\ IF out = "ready"
             THEN /\ mem' = res.s.mem
                  /\ free_lists' = res.s.free_lists
                  /\ brk' = res.s.brk
                  /\ live' = newlive
                  /\ last' = [call EXCEPT !.ret = res.r, !.how = res.how]
             ELSE /\ UNCHANGED <<mem, free_lists, brk, live>>
                  /\ last' = [call EXCEPT !.how = res.how]
          /\ UNCHANGED <<fill, arena, calls>>

Init ==
    /\ fill \in FillWords
    /\ arena = MaxHeapWords
    /\ mem = [j \in 0 .. (arena - 1) |-> fill]
    /\ free_lists = [i \in Lists |-> NULL]
    /\ brk = 0
    /\ status = "uninit"
    /\ live = {}
    /\ last = Call("none", NULL, 0, 0)
    /\ acc = {}
    /\ calls = 0

MmInit ==
    /\ status = "uninit"
    /\ last.op = "none"
    /\ \E ok \in BOOLEAN :
         \E res \in {mm_init(S0, ok)} :
             /\ mem' = res.s.mem
             /\ free_lists' = res.s.free_lists
             /\ brk' = res.s.brk
             /\ acc' = res.s.acc
             /\ status' = IF res.r THEN "ready" ELSE "uninit"
             /\ last' = [Call("mm_init", NULL, 0, 0) EXCEPT
                           !.ret = Bit(res.r),
                           !.how = IF res.r THEN "grown" ELSE "failed"]
             /\ UNCHANGED <<live, fill, arena, calls>>

\* The extension primitive's answer matters only to a call that asks it:
\* such a call is taken once with the host granting the request (when the
\* arena has room) and once with the host refusing it.
Refusable(granted) == granted.how = "grown"

\* the call handed a block of the heap to the caller
Obtained(how) == how \in {"placed", "split", "grown"}

Malloc ==
    /\ status = "ready"
    /\ last.op = "none"
    /\ \E n \in Sizes :
         \E granted \in {malloc(S0, n, TRUE)} :
         \E res \in IF Refusable(granted) THEN {granted, malloc(S0, n, FALSE)}
                                          ELSE {granted} :
               Step(res, Call("malloc", NULL, n, 0),
                    IF Obtained(res.how) THEN live \cup {res.r}
                                         ELSE live)

Free ==
    /\ status = "ready"
    /\ last.op = "none"
    /\ \E p \in live \cup {NULL} :
         \E res \in {[s |-> free(S0, p), r |-> NULL, how |-> "freed"]} :
               Step(res, Call("free", p, 0, 0), live \ {p})

Realloc ==
    /\ status = "ready"
    /\ last.op = "none"
    /\ \E p \in live \cup {NULL}, n \in Sizes :
         \E granted \in {realloc(S0, p, n, TRUE)} :
         \E res \in IF Refusable(granted) THEN {granted, realloc(S0, p, n, FALSE)}
                                          ELSE {granted} :
               Step(res, Call("realloc", p, n, 0),
                    IF res.how = "same" \/ res.how = "zero" THEN live
                    ELSE IF Obtained(res.how)
                         THEN (live \ {p}) \cup {res.r}
                    ELSE IF p = NULL THEN live ELSE live \ {p})

Calloc ==
    /\ status = "ready"
    /\ last.op = "none"
    /\ \E a \in CallocArgs :
         \E granted \in {calloc(S0, a[1], a[2], TRUE)} :
         \E res \in IF Refusable(granted)
                    THEN {granted, calloc(S0, a[1], a[2], FALSE)}
                    ELSE {granted} :
               Step(res, Call("calloc", NULL, a[2], a[1]),
                    IF Obtained(res.how) THEN live \cup {res.r}
                                         ELSE live)

\* The caller takes the result of the call that returned; the record of the
\* call is dropped.  Nothing of the allocator changes.
ReturnCounted(c) ==
    /\ last.op # "none"
    /\ status \in {"uninit", "ready"}
    /\ last' = Call("none", NULL, 0, 0)
    /\ acc' = {}
    /\ calls' = c
    /\ UNCHANGED <<mem, free_lists, brk, status, live, fill, arena>>

Return == ReturnCounted(calls)

Next == MmInit \/ Malloc \/ Free \/ Realloc \/ Calloc \/ Return

Spec == Init /\ [][Next]_vars

(***************************************************************************)
(* Views of the current heap, as traverse_heap and tranverse_free_list     *)
(* walk it.                                                                *)
(***************************************************************************)
Initialised == brk > 0

Word(a) == Rd(S0, a)

\* the headers met stepping header + size from the first block to the epilogue
RECURSIVE Walk(_, _)
Walk(h, fuel) ==
    IF fuel = 0 \/ ~in_heap(S0, h) \/ d_epilogue(Word(h)) THEN <<>>
    ELSE <<h>> \o Walk(header_to_header(S0, h), fuel - 1)

Blocks == IF Initialised THEN Walk(header_to_header(S0, mm_heap_lo), arena)
          ELSE <<>>

\* the nodes met walking next_free_block from a list head to NULL
RECURSIVE Nodes(_, _)
Nodes(fb, fuel) ==
    IF fb = NULL \/ fuel = 0 THEN <<>>
    ELSE <<fb>> \o Nodes(Word(next_free_block(fb)), fuel - 1)

ListNodes(i) == Nodes(free_lists[i], arena)

IsFree(h) == ~d_alloc(Word(h))
BlockSize(h) == d_size(Word(h))

\* compare_divider on the words at header and footer
compare_divider(header, footer) ==
    /\ d_size(Word(header)) = d_size(Word(footer))
    /\ d_alloc(Word(header)) = d_alloc(Word(footer))
    /\ d_prev_alloc(Word(header)) = d_prev_alloc(Word(footer))
    /\ d_next_alloc(Word(header)) = d_next_alloc(Word(footer))
    /\ d_epilogue(Word(header)) = d_epilogue(Word(footer))

prologue == mm_heap_lo
epilogue == PSub(PAdd(mm_heap_hi(S0), 1), DIVIDER_SIZE)

\* the block before / after the k-th block in address order
Pred(k) == IF k = 1 THEN prologue ELSE Blocks[k - 1]
Succ(k) == IF k >= Len(Blocks) THEN epilogue ELSE Blocks[k + 1]

\* one past the payload of the block whose payload starts at p
PayloadEnd(p) == p + BlockSize(header_from_data(p)) - DIVIDER_SIZE

\* the places <<list, position>> at which the block at header h is linked
Places(h) ==
    {pl \in Lists \X (1 .. arena) :
        /\ pl[2] <= Len(ListNodes(pl[1]))
        /\ ListNodes(pl[1])[pl[2]] = free_block_from_header(h)}

(***************************************************************************)
(* The second specification: the same allocator over an arena large enough *)
(* for a block of the last list, called with malloc and free only by a     *)
(* caller that holds one block at a time.                                  *)
(***************************************************************************)
\* request sizes: blocks of 32 bytes (1 and 16), 144, 160, 2016 and 3008 bytes
LargeSizes == {1, 16, 130, 150, 2000, 3000}

InitLarge ==
    /\ fill \in FillWords
    /\ arena = LargeHeapWords
    /\ mem = [j \in 0 .. (arena - 1) |-> fill]
    /\ free_lists = [i \in Lists |-> NULL]
    /\ brk = 0
    /\ status = "uninit"
    /\ live = {}
    /\ last = Call("none", NULL, 0, 0)
    /\ acc = {}
    /\ calls = 0

MallocLarge ==
    /\ status = "ready"
    /\ last.op = "none"
    /\ live = {}
    /\ \E n \in LargeSizes :
         \E granted \in {malloc(S0, n, TRUE)} :
         \E res \in IF Refusable(granted) THEN {granted, malloc(S0, n, FALSE)}
                                          ELSE {granted} :
               Step(res, Call("malloc", NULL, n, 0),
                    IF Obtained(res.how) THEN live \cup {res.r}
                                         ELSE live)

NextLarge == MmInit \/ MallocLarge \/ Free \/ Return

SpecLarge == InitLarge /\ [][NextLarge]_vars

(***************************************************************************)
(* The third specification: an arena in which several free blocks of the   *)
(* list of sizes 97 to 2916 can lie apart, called with malloc and free     *)
(* only by a caller that makes a bounded number of calls.                  *)
(***************************************************************************)
\* request sizes: blocks of 32, 112 and 160 bytes
MidSizes == {1, 100, 150}

InitMid ==
    /\ fill \in FillWords
    /\ arena = MidHeapWords
    /\ mem = [j \in 0 .. (arena - 1) |-> fill]
    /\ free_lists = [i \in Lists |-> NULL]
    /\ brk = 0
    /\ status = "uninit"
    /\ live = {}
    /\ last = Call("none", NULL, 0, 0)
    /\ acc = {}
    /\ calls = 0

MallocMid ==
    /\ status = "ready"
    /\ last.op = "none"
    /\ \E n \in MidSizes :
         \E granted \in {malloc(S0, n, TRUE)} :
         \E res \in IF Refusable(granted) THEN {granted, malloc(S0, n, FALSE)}
                                          ELSE {granted} :
               Step(res, Call("malloc", NULL, n, 0),
                    IF Obtained(res.how) THEN live \cup {res.r}
                                         ELSE live)

\* the caller takes the result and counts the call
ReturnMid == calls < MaxCalls /\ ReturnCounted(calls + 1)

NextMid == MmInit \/ MallocMid \/ Free \/ ReturnMid

SpecMid == InitMid /\ [][NextMid]_vars

(***************************************************************************)
(* The fourth specification: the allocator as it is compiled with DEBUG    *)
(* defined, over the first arena.  The caller may ask mm_checkheap about   *)
(* the heap between any two calls, and realloc asks it on its own.         *)
(***************************************************************************)
CheckHeap ==
    /\ status = "ready"
    /\ last.op = "none"
    /\ \E line_number \in {0} :
         \E c \in {mm_checkheap(S0, line_number)} :
               Step([s |-> c.s, r |-> Bit(c.r), how |-> "checked"],
                    Call("mm_checkheap", NULL, line_number, 0), live)

ReallocDebug ==
    /\ status = "ready"
    /\ last.op = "none"
    /\ \E p \in live \cup {NULL}, n \in Sizes :
         \E granted \in {realloc_debug(S0, p, n, TRUE)} :
         \E res \in IF Refusable(granted)
                    THEN {granted, realloc_debug(S0, p, n, FALSE)}
                    ELSE {granted} :
               Step(res, Call("realloc", p, n, 0),
                    IF res.how = "same" \/ res.how = "zero" THEN live
                    ELSE IF Obtained(res.how)
                         THEN (live \ {p}) \cup {res.r}
                    ELSE IF p = NULL THEN live ELSE live \ {p})

NextDebug ==
    MmInit \/ Malloc \/ Free \/ ReallocDebug \/ Calloc \/ CheckHeap \/ Return

SpecDebug == Init /\ [][NextDebug]_vars

(***************************************************************************)
(* Properties of the allocator.                                            *)
(***************************************************************************)

\* C1: the payload ranges [p, p + blocksize - 8) of the live allocations
\* (returned and not yet freed or moved) are pairwise disjoint.
C1_LivePayloadsDisjoint ==
    \A p \in live, q \in live :
        p # q => (PayloadEnd(p) <= q \/ PayloadEnd(q) <= p)

\* a free block was reused (whole or split) while another allocation is live
C1_ReuseBesideLive ==
    /\ last.op = "malloc"
    /\ last.how \in {"placed", "split"}
    /\ last.ret \in live
    /\ Cardinality(live) >= 2

\* C2: for every request size n, the pointer allocate(n) returns heads a
\* block whose payload capacity (header size - 8) is at least n.
C2_CapacityCoversRequest ==
    (last.op = "malloc" /\ Obtained(last.how) /\ status = "ready")
        => BlockSize(header_from_data(last.ret)) - DIVIDER_SIZE >= last.n

\* C3: when no free block fits and the extension primitive fails,
\* allocate(n) returns null.
C3_FailedAllocateReturnsNull ==
    (last.op = "malloc" /\ last.how = "failed" /\ status = "ready")
        => last.ret = NULL

\* C4: when allocate(n) needs to grow the heap and the extension primitive
\* fails, the call returns with every heap word and all six list heads (and
\* the extent of the heap) exactly as they were before the call.
C4_FailedGrowthChangesNothing ==
    [][(last'.op = "malloc" /\ last'.how = "failed")
          => (status' = "ready" /\ mem' = mem /\ free_lists' = free_lists
              /\ brk' = brk)]_vars

\* an allocate failed at the extension primitive after the lists, which hold
\* a free block, had been searched
C4_FailedGrowthWithFreeBlocks ==
    /\ last.op = "malloc"
    /\ last.how = "failed"
    /\ status = "ready"
    /\ \E i \in Lists : free_lists[i] # NULL

\* C5: when reallocate(p, n) must move the block and the extension primitive
\* fails, reallocate returns null, the old block at p stays allocated with
\* its payload unchanged and no address outside the heap is read or written;
\* zero_allocate likewise returns null without filling anything.
C5_FailedMoveKeepsOldBlock ==
    [][/\ (last'.op = "realloc" /\ last'.p # NULL /\ last'.how = "failed")
            => /\ status' = "ready"
               /\ last'.ret = NULL
               /\ OUTSIDE \notin acc'
               /\ d_alloc(mem'[Idx(header_from_data(last'.p))])
               /\ \A a \in ArenaAddrs :
                     (a >= last'.p /\ a < PayloadEnd(last'.p))
                         => mem'[Idx(a)] = mem[Idx(a)]
       /\ (last'.op = "calloc" /\ last'.how = "failed")
            => /\ status' = "ready"
               /\ last'.ret = NULL
               /\ OUTSIDE \notin acc'
               /\ mem' = mem]_vars

\* C6: no two blocks adjacent in address order are both free.
C6_NoAdjacentFreeBlocks ==
    \A k \in 1 .. (Len(Blocks) - 1) : ~(IsFree(Blocks[k]) /\ IsFree(Blocks[k + 1]))

\* C7: for every real block and for the epilogue, the P bit of the header
\* equals the A bit of the block immediately before it.
C7_PrevAllocBitsExact ==
    Initialised =>
        /\ \A k \in 1 .. Len(Blocks) :
              d_prev_alloc(Word(Blocks[k])) = d_alloc(Word(Pred(k)))
        /\ d_prev_alloc(Word(epilogue)) = d_alloc(Word(Pred(Len(Blocks) + 1)))

\* C8: for the prologue and every real block, the N bit of the header equals
\* the A bit of the block immediately after it.
C8_NextAllocBitsExact ==
    Initialised =>
        /\ \A k \in 1 .. Len(Blocks) :
              d_next_alloc(Word(Blocks[k])) = d_alloc(Word(Succ(k)))
        /\ d_next_alloc(Word(prologue)) = d_alloc(Word(Succ(0)))

\* C9: a block is linked in a free list iff its A bit is 0; a free block is
\* linked exactly once, in the list find_free_list selects for its size.
C9_FreeListsHoldExactlyFreeBlocks ==
    \A k \in 1 .. Len(Blocks) :
        LET h == Blocks[k]
        IN  IF IsFree(h)
            THEN /\ Cardinality(Places(h)) = 1
                 /\ \A pl \in Places(h) : pl[1] = find_free_list(BlockSize(h))
            ELSE Places(h) = {}

\* an allocate that split a free block has returned: the prefix it handed
\* out is followed by the free suffix
C9_AfterSplitAllocate ==
    /\ last.op = "malloc"
    /\ last.how = "split"
    /\ status = "ready"
    /\ IsFree(header_to_header(S0, header_from_data(last.ret)))

\* C10: for every free block the footer word at header + size - 8 equals the
\* header in all five fields.
C10_FreeFooterMirrorsHeader ==
    \A k \in 1 .. Len(Blocks) :
        IsFree(Blocks[k])
            => compare_divider(Blocks[k], footer_from_header(S0, Blocks[k]))

\* a free has merged two blocks into one free block of 64 bytes or more
C10_MergedFreeBlock ==
    /\ last.op = "free"
    /\ status = "ready"
    /\ \E k \in 1 .. Len(Blocks) : IsFree(Blocks[k]) /\ BlockSize(Blocks[k]) >= 64

\* the address the walk over the blocks stops at
WalkEnd ==
    IF Len(Blocks) = 0 THEN header_to_header(S0, prologue)
    ELSE header_to_header(S0, Blocks[Len(Blocks)])

\* C11: the heap is tiled exactly: the prologue at offset 0, the real blocks
\* laid end to end by their sizes, then one epilogue (E = 1, size 0, A = 1)
\* in the last 8 bytes; the walk from the first block reaches that epilogue,
\* and no other divider has E = 1.
C11_HeapTiledExactly ==
    Initialised =>
        /\ d_size(Word(prologue)) = DIVIDER_SIZE
        /\ d_alloc(Word(prologue)) /\ ~d_epilogue(Word(prologue))
        /\ WalkEnd = epilogue
        /\ d_epilogue(Word(epilogue))
        /\ d_size(Word(epilogue)) = 0 /\ d_alloc(Word(epilogue))
        /\ \A k \in 1 .. Len(Blocks) :
              /\ BlockSize(Blocks[k]) > 0
              /\ ~d_epilogue(Word(Blocks[k]))
              /\ IsFree(Blocks[k])
                    => ~d_epilogue(Word(footer_from_header(S0, Blocks[k])))

\* the heap was extended behind a free block and holds two blocks or more
C11_GrownBehindFreeBlock ==
    /\ last.op = "malloc"
    /\ last.how = "grown"
    /\ status = "ready"
    /\ Len(Blocks) >= 2
    /\ \E k \in 1 .. Len(Blocks) : IsFree(Blocks[k])

\* C12: every real block has a size that is a multiple of 16 and at least
\* 32; in particular the free suffix left by a split.
C12_BlockSizesAlignedAndLarge ==
    \A k \in 1 .. Len(Blocks) :
        /\ BlockSize(Blocks[k]) % ALIGNMENT = 0
        /\ BlockSize(Blocks[k]) >= MIN_BLOCK_SIZE

\* a split has left a free suffix of exactly the least size behind the
\* prefix it handed out
C12_SplitLeftLeastSuffix ==
    /\ last.how = "split"
    /\ status = "ready"
    /\ IsFree(header_to_header(S0, header_from_data(last.ret)))
    /\ BlockSize(header_to_header(S0, header_from_data(last.ret))) = MIN_BLOCK_SIZE

\* C13: with heap_lo 16-byte aligned, every pointer allocate returns after a
\* placement or an extension is at a multiple of 16 from heap_lo and lies
\* strictly between heap_lo and heap_hi.
C13_ReturnedPointersAligned ==
    (last.op = "malloc" /\ Obtained(last.how) /\ status = "ready")
        => /\ mm_heap_lo % ALIGNMENT = 0
           /\ (last.ret - mm_heap_lo) % ALIGNMENT = 0
           /\ last.ret > mm_heap_lo
           /\ last.ret < mm_heap_hi(S0)

\* an allocate has placed a block behind another block of the heap
C13_PlacedBehindAnother ==
    /\ last.op = "malloc"
    /\ last.how \in {"placed", "split"}
    /\ status = "ready"
    /\ header_from_data(last.ret) # header_to_header(S0, prologue)

\* C14: during an allocate or a free, no byte inside the payload of a block
\* that is allocated to the caller and is not the argument of the call is
\* read or written.
C14_ForeignPayloadUntouched ==
    (last.op \in {"malloc", "free"})
        => \A q \in live \ {last.ret, last.p} :
              \A a \in acc : ~(a >= q /\ a < PayloadEnd(q))

\* C15: when reallocate(p, n) moves the block (n > old size - 8, the
\* allocation succeeds), it returns q different from p, the first
\* (old size - 8) payload bytes at q equal the bytes that were at p, the new
\* block is allocated with capacity at least n, and the old block is free
\* (possibly merged) afterwards.
C15_MovePreservesPayload ==
    [][(/\ last'.op = "realloc" /\ last'.p # NULL /\ last'.n > 0
        /\ last'.n > BlockSize(header_from_data(last'.p)) - DIVIDER_SIZE
        /\ Obtained(last'.how))
          => /\ status' = "ready"
             /\ last'.ret # last'.p
             /\ \A a \in ArenaAddrs :
                   (a >= last'.p /\ a < PayloadEnd(last'.p))
                       => /\ InArena(last'.ret + (a - last'.p))
                          /\ mem'[Idx(last'.ret + (a - last'.p))] = mem[Idx(a)]
             /\ d_alloc(mem'[Idx(header_from_data(last'.ret))])
             /\ d_size(mem'[Idx(header_from_data(last'.ret))]) - DIVIDER_SIZE
                   >= last'.n
             /\ \E k \in 1 .. Len(Blocks') :
                   /\ IsFree(Blocks[k])'
                   /\ Blocks'[k] <= header_from_data(last'.p)
                   /\ header_from_data(last'.p)
                         < Blocks'[k] + BlockSize(Blocks[k])']_vars

\* C16: reallocate(p, n) with p non-null, n > 0 and n <= size - 8 returns p
\* and leaves the heap, the six lists and the heap size unchanged.
C16_FittingReallocIsIdentity ==
    [][(/\ last'.op = "realloc" /\ last'.p # NULL /\ last'.n > 0
        /\ last'.n <= BlockSize(header_from_data(last'.p)) - DIVIDER_SIZE)
          => /\ status' = "ready"
             /\ last'.ret = last'.p
             /\ mem' = mem /\ free_lists' = free_lists /\ brk' = brk
             /\ live' = live]_vars

\* a reallocate to 40 bytes of a block that holds 40 bytes has returned
C16_FittingRealloc ==
    /\ last.op = "realloc"
    /\ last.how = "same"
    /\ last.n = 40
    /\ status = "ready"

\* C17: reallocate(null, n) returns the same pointer and produces the same
\* heap and free lists as allocate(n) run from the same state.
C17_ReallocNullIsMalloc ==
    [][(last'.op = "realloc" /\ last'.p = NULL /\ status' = "ready")
          => \E ok \in BOOLEAN : \E m \in {malloc(S0, last'.n, ok)} :
                /\ ~m.s.hung
                /\ last'.ret = m.r
                /\ mem' = m.s.mem
                /\ free_lists' = m.s.free_lists
                /\ brk' = m.s.brk]_vars

\* a reallocate of the null pointer has obtained a block beside a live one
C17_ReallocNullObtained ==
    /\ last.op = "realloc"
    /\ last.p = NULL
    /\ Obtained(last.how)
    /\ status = "ready"
    /\ Cardinality(live) >= 2

\* C18: for a live pointer p, reallocate(p, 0) returns null and produces the
\* same heap and free lists as free(p) run from the same state.
C18_ReallocZeroIsFree ==
    [][(last'.op = "realloc" /\ last'.p # NULL /\ last'.n = 0)
          => \E f \in {free(S0, last'.p)} :
                /\ status' = "ready"
                /\ OUTSIDE \notin f.acc
                /\ last'.ret = NULL
                /\ mem' = f.mem
                /\ free_lists' = f.free_lists
                /\ brk' = f.brk
                /\ live' = live \ {last'.p}]_vars

\* a reallocate to size 0 has freed a block that merged with a neighbour
C18_ReallocZeroMerged ==
    /\ last.op = "realloc"
    /\ last.p # NULL
    /\ last.n = 0
    /\ status = "ready"
    /\ \E k \in 1 .. Len(Blocks) : IsFree(Blocks[k]) /\ BlockSize(Blocks[k]) >= 64

\* C19: allocate(0), zero_allocate(m, n) with m = 0 or n = 0 and free(null)
\* return (null for the first two) and leave the heap contents, the heap
\* size and all list heads unchanged.
C19_NullCallsChangeNothing ==
    [][(\/ (last'.op = "malloc" /\ last'.n = 0)
        \/ (last'.op = "calloc" /\ (last'.m = 0 \/ last'.n = 0))
        \/ (last'.op = "free" /\ last'.p = NULL))
          => /\ status' = "ready"
             /\ last'.ret = NULL
             /\ mem' = mem /\ free_lists' = free_lists /\ brk' = brk
             /\ live' = live]_vars

\* a zero_allocate of zero bytes has returned while the lists hold a block
C19_ZeroCallocWithFreeBlocks ==
    /\ last.op = "calloc"
    /\ (last.m = 0 \/ last.n = 0)
    /\ status = "ready"
    /\ \E i \in Lists : free_lists[i] # NULL

\* C20: for all m and n, a non-null pointer returned by zero_allocate(m, n)
\* heads a block with payload capacity at least the product m * n, and those
\* m * n bytes are all zero.
C20_CallocCoversProduct ==
    (last.op = "calloc" /\ status = "ready" /\ last.ret # NULL)
        => /\ BlockSize(header_from_data(last.ret)) - DIVIDER_SIZE
                 >= last.m * last.n
           /\ \A a \in ArenaAddrs :
                 (a >= last.ret /\ a < last.ret + last.m * last.n)
                     => Word(a) = 0

(***************************************************************************)
(* The same views on a machine state s (the heap a call would leave).      *)
(***************************************************************************)
RECURSIVE WalkIn(_, _, _)
WalkIn(s, h, fuel) ==
    IF fuel = 0 \/ ~in_heap(s, h) \/ d_epilogue(Rd(s, h)) THEN <<>>
    ELSE <<h>> \o WalkIn(s, header_to_header(s, h), fuel - 1)

BlocksIn(s) ==
    IF s.brk > 0 THEN WalkIn(s, header_to_header(s, mm_heap_lo), arena) ELSE <<>>

\* the allocated blocks of s: header address and size
AllocatedIn(s) ==
    {<<b, d_size(Rd(s, b))>> : b \in {h \in {BlocksIn(s)[k] : k \in 1 .. Len(BlocksIn(s))} :
                                          d_alloc(Rd(s, h))}}

\* the word addresses of s covered by free blocks
FreeBytesIn(s) ==
    {a \in ArenaAddrs :
        \E k \in 1 .. Len(BlocksIn(s)) :
            /\ ~d_alloc(Rd(s, BlocksIn(s)[k]))
            /\ a >= BlocksIn(s)[k]
            /\ a < BlocksIn(s)[k] + d_size(Rd(s, BlocksIn(s)[k]))}

AdjacentFreeIn(s) ==
    \E k \in 1 .. (Len(BlocksIn(s)) - 1) :
        ~d_alloc(Rd(s, BlocksIn(s)[k])) /\ ~d_alloc(Rd(s, BlocksIn(s)[k + 1]))

\* C21: p = allocate(n) served from a free list followed at once by free(p)
\* leaves the set of allocated blocks (address and size) and the heap size
\* as before the allocate and the bytes covered by free blocks the same;
\* when the earlier state had no two adjacent free blocks, the block
\* boundaries are the same too.
C21_AllocateThenFreeRestores ==
    (status = "ready" /\ last.op = "none") =>
        \A n \in Sizes : \A m \in {malloc(S0, n, TRUE)} :
            m.how \in {"placed", "split"} =>
                \A f \in {free([m.s EXCEPT !.acc = {}], m.r)} :
                    /\ OUTSIDE \notin f.acc
                    /\ AllocatedIn(f) = AllocatedIn(S0)
                    /\ f.brk = brk
                    /\ FreeBytesIn(f) = FreeBytesIn(S0)
                    /\ ~AdjacentFreeIn(S0) => BlocksIn(f) = BlocksIn(S0)

\* the caller is about to call in a state without adjacent free blocks whose
\* lists hold a block that allocate(1) will split, next to a live block
C21_SplitThenFreePossible ==
    /\ status = "ready"
    /\ last.op = "none"
    /\ live # {}
    /\ ~AdjacentFreeIn(S0)
    /\ malloc(S0, 1, TRUE).how = "split"

\* max(32, n + 8 rounded up to 16), in size_t arithmetic
RoundedRequest(n) ==
    LET up == (16 * ((((((n + 8) % WORD) + 15) % WORD) \div 16))) % WORD
    IN  IF up < 32 THEN 32 ELSE up

\* the byte count the call recorded in c hands to malloc
RequestOf(c) == IF c.op = "calloc" THEN (c.n * c.m) % WORD ELSE c.n

ListedHeaders ==
    {header_from_free_block(ListNodes(i)[j]) :
        <<i, j>> \in {pl \in Lists \X (1 .. arena) : pl[2] <= Len(ListNodes(pl[1]))}}

\* C24: free(p) on a block whose P bit is 0 and whose successor is free
\* leaves one free block that starts at the predecessor's header, has the sum
\* of the three sizes and a matching footer, is linked once, in the list for
\* the summed size, and the two neighbours are no longer linked separately.
C24_ThreeWayMerge ==
    [][(/\ last'.op = "free" /\ last'.p # NULL
        /\ ~d_prev_alloc(Word(header_from_data(last'.p)))
        /\ ~d_epilogue(Word(header_to_header(S0, header_from_data(last'.p))))
        /\ IsFree(header_to_header(S0, header_from_data(last'.p))))
          => \E h \in {header_from_data(last'.p)} :
             \E ph \in {PAdd(PSub(PSub(h, DIVIDER_SIZE),
                                  d_size(Word(PSub(h, DIVIDER_SIZE)))),
                             DIVIDER_SIZE)} :
             \E sum \in {BlockSize(ph) + BlockSize(h)
                           + BlockSize(header_to_header(S0, h))} :
                /\ status' = "ready"
                /\ \E k \in 1 .. Len(Blocks') : Blocks'[k] = ph
                /\ IsFree(ph)'
                /\ BlockSize(ph)' = sum
                /\ compare_divider(ph, PSub(PAdd(ph, sum), DIVIDER_SIZE))'
                /\ Cardinality(Places(ph)') = 1
                /\ \A pl \in Places(ph)' : pl[1] = find_free_list(sum)
                /\ \A b \in ListedHeaders' :
                      (b >= ph /\ b < ph + sum) => b = ph]_vars

\* a free has merged the block with a free block before it and one after it
C24_MergedOnBothSides ==
    /\ last.op = "free"
    /\ last.p # NULL
    /\ status = "ready"
    /\ \E k \in 1 .. Len(Blocks) :
          /\ IsFree(Blocks[k])
          /\ Blocks[k] < header_from_data(last.p)
          /\ header_from_data(last.p) + BlockSize(header_from_data(last.p))
                < Blocks[k] + BlockSize(Blocks[k])

\* C25: mm_init asks the extension primitive for exactly 16 bytes; when it
\* gets them it returns true with the prologue {8, A, P, N} at offset 0, the
\* epilogue {0, A, P, N, E} at offset 8 and the six heads null; it returns
\* false exactly when the primitive failed, and then it has written nothing.
C25_InitContract ==
    [][last'.op = "mm_init" =>
         \E ok \in BOOLEAN : \E ext \in {mm_sbrk(S0, 16, ok)} :
            /\ brk' = ext.s.brk
            /\ (last'.ret = Bit(FALSE)) <=> (ext.r = SBRK_FAIL)
            /\ last'.ret \in {Bit(FALSE), Bit(TRUE)}
            /\ ext.r = SBRK_FAIL =>
                  /\ mem' = mem
                  /\ free_lists' = free_lists
                  /\ acc' = {}
            /\ ext.r # SBRK_FAIL =>
                  /\ brk' = brk + 16
                  /\ ext.r = mm_heap_lo
                  /\ Word(mm_heap_lo)'
                       = make_divider(8, TRUE, TRUE, TRUE, FALSE)
                  /\ Word(mm_heap_lo + 8)'
                       = make_divider(0, TRUE, TRUE, TRUE, TRUE)
                  /\ \A i \in Lists : free_lists'[i] = NULL
                  /\ acc' = {mm_heap_lo, mm_heap_lo + 8}]_vars

\* mm_init has returned true over memory that held something else before
C25_InitSucceeded ==
    /\ last.op = "mm_init"
    /\ last.ret = Bit(TRUE)
    /\ status = "ready"
    /\ fill # 0
    /\ brk = 16

\* C26: a malloc, free or realloc in which the extension primitive did not
\* fail touches, as divider, list link or payload copy, only addresses from
\* mm_heap_lo to mm_heap_hi.
C26_AccessesInsideHeap ==
    (last.op \in {"malloc", "free", "realloc"} /\ last.how # "failed") =>
        /\ status = "ready"
        /\ \A a \in acc :
              /\ a # OUTSIDE
              /\ a >= mm_heap_lo
              /\ a <= mm_heap_lo + brk - 1

\* a free has read the footer of a free block before it and the header after
\* the block behind it, over memory prefilled with all-ones
C26_FreeReadBothNeighbours ==
    /\ C24_MergedOnBothSides
    /\ fill # 0
    /\ PSub(header_from_data(last.p), DIVIDER_SIZE) \in acc
    /\ mm_heap_lo + brk - DIVIDER_SIZE \in acc

\* C27: when the last block before the epilogue is free and too small for the
\* request, malloc hands out that block, extended, and the heap grows only by
\* the shortfall (request size minus the size of that block).
C27_WildernessExtended ==
    [][(/\ last'.op = "malloc" /\ last'.how = "grown" /\ status' = "ready"
        /\ Len(Blocks) > 0
        /\ IsFree(Blocks[Len(Blocks)]))
          => \E h \in {Blocks[Len(Blocks)]} :
                /\ brk' - brk = request_size(last'.n) - BlockSize(h)
                /\ last'.ret = data_from_header(h)]_vars

\* list i holds a free block of at least size bytes
HoldsFit(i, size) ==
    \E j \in 1 .. arena :
        /\ j <= Len(ListNodes(i))
        /\ IsFree(header_from_free_block(ListNodes(i)[j]))
        /\ BlockSize(header_from_free_block(ListNodes(i)[j])) >= size

\* the lists a block is linked in
ListsOf(h) == {pl[1] : pl \in Places(h)}

\* the call asked find_free_space for a block and did not stop before it
Searched(c) == c.op \in {"malloc", "realloc", "calloc"} /\ Obtained(c.how)

\* C28 as stated: the block find_free_space selects comes from the list of
\* the request's own class or, when that list holds no block large enough,
\* from list 5; never from a list in between.
C28_OwnClassOrCatchAll ==
    [][(Searched(last') /\ last'.how # "grown") =>
         \E size \in {RoundedRequest(RequestOf(last'))} :
         \A i \in ListsOf(header_from_data(last'.ret)) :
            \/ i = find_free_list(size)
            \/ i = SEGRAGATED_SIZES - 1 /\ ~HoldsFit(find_free_list(size), size)]_vars

\* C28 (amended): find_free_space(s) examines, in increasing order, every
\* list i with s <= free_list_sizes[i] and then list 5; the block it selects
\* comes from the first of these lists that holds a free block of size >= s,
\* and it returns NULL only if none of them holds one.
C28_FirstListThatFits ==
    [][Searched(last') =>
         \E size \in {RoundedRequest(RequestOf(last'))} :
            IF last'.how = "grown"
            THEN \A i \in Lists : i >= find_free_list(size) => ~HoldsFit(i, size)
            ELSE /\ ListsOf(header_from_data(last'.ret)) # {}
                 /\ \A i \in ListsOf(header_from_data(last'.ret)) :
                      /\ i >= find_free_list(size)
                      /\ HoldsFit(i, size)
                      /\ \A k \in Lists :
                            (k >= find_free_list(size) /\ k < i)
                               => ~HoldsFit(k, size)]_vars

\* a 32-byte request has been served from a block of more than 48 bytes, which
\* was linked in a list between the request's own and list 5
C28_ServedFromListBetween ==
    /\ Searched(last)
    /\ last.how \in {"placed", "split"}
    /\ status = "ready"
    /\ RoundedRequest(RequestOf(last)) = 32
    /\ \/ BlockSize(header_from_data(last.ret)) > 48
       \/ /\ last.how = "split"
          /\ header_to_header(S0, header_from_data(last.ret))
                \in ListedHeaders

\* C30: when find_free_space(s) selects the free block at H of size z: if
\* z > s + 24, H becomes an allocated block of size s and H + s a free block
\* of size z - s whose footer equals its header, whose P bit is 1, which is
\* linked in the list for z - s, and the block at H + z has P = 0; otherwise
\* H is allocated whole with size z and the block at H + z has P = 1.
C30_SplitOrWhole ==
    [][(last'.op \in {"malloc", "calloc"} /\ last'.how \in {"placed", "split"}) =>
         \E size \in {RoundedRequest(RequestOf(last'))} :
         \E h \in {header_from_data(last'.ret)} :
         \E z \in {BlockSize(header_from_data(last'.ret))} :
            /\ IsFree(h)
            /\ ~IsFree(h)'
            /\ IF z > size + 24
               THEN /\ last'.how = "split"
                    /\ BlockSize(h)' = size
                    /\ IsFree(h + size)'
                    /\ BlockSize(h + size)' = z - size
                    /\ Word(h + size)' = Word(h + z - DIVIDER_SIZE)'
                    /\ d_prev_alloc(Word(h + size))'
                    /\ ~d_prev_alloc(Word(h + z))'
                    /\ ListsOf(h + size)' = {find_free_list(z - size)}
                    /\ Cardinality(Places(h + size)') = 1
               ELSE /\ last'.how = "placed"
                    /\ BlockSize(h)' = z
                    /\ d_prev_alloc(Word(h + z))']_vars

\* a block of more than s + 24 bytes has been split for a request of s bytes
\* in front of a block that is in use
C30_SplitBeforeLiveBlock ==
    /\ last.op \in {"malloc", "calloc"}
    /\ last.how = "split"
    /\ status = "ready"
    /\ \E k \in 1 .. Len(Blocks) :
          /\ Blocks[k] = header_from_data(last.ret)
          /\ k + 2 <= Len(Blocks)
          /\ IsFree(Blocks[k + 1])
          /\ ~IsFree(Blocks[k + 2])

\* the sizes of the blocks linked in list i, from the head on
SizesOf(i) ==
    [j \in 1 .. Len(ListNodes(i)) |->
        BlockSize(header_from_free_block(ListNodes(i)[j]))]

\* the lists find_free_space scans for size, that hold a block of >= size
ScannedWithFit(size) ==
    {i \in Lists : i >= find_free_list(size) /\ HoldsFit(i, size)}

\* the first of them
FirstWithFit(size) ==
    CHOOSE i \in ScannedWithFit(size) : \A k \in ScannedWithFit(size) : i <= k

\* the position in the sequence of sizes sz of the block the walk stops at or
\* ends with: the first one within the margin, else the first of the smallest
\* ones that fit
PickFrom(sz, size) ==
    LET fits == {j \in DOMAIN sz : sz[j] >= size}
        near == {j \in fits : 1000 * sz[j] <= 1225 * size}
        least == {j \in fits : \A k \in fits : sz[j] <= sz[k]}
    IN  IF near # {} THEN CHOOSE j \in near : \A k \in near : j <= k
                     ELSE CHOOSE j \in least : \A k \in least : j <= k

\* C29: in the first scanned list that holds a block of size >= s,
\* find_free_space picks the first block, from the head, with
\* s <= size <= 1.225 * s if there is one, and otherwise the smallest block
\* of size >= s, the earliest of them on ties; the block has size >= s.
C29_BestFitWithMargin ==
    [][(Searched(last') /\ last'.how # "grown") =>
         \E size \in {RoundedRequest(RequestOf(last'))} :
            /\ ScannedWithFit(size) # {}
            /\ \E sz \in {SizesOf(FirstWithFit(size))} :
               \E j \in {PickFrom(sz, size)} :
                  /\ last'.ret = ListNodes(FirstWithFit(size))[j]
                  /\ sz[j] >= size]_vars

\* a block has been split for a request it was more than 22.5 percent larger
\* than, while another free block of the same size stays linked
C29_ChoseAmongEqualBlocks ==
    /\ last.op = "malloc"
    /\ last.how = "split"
    /\ status = "ready"
    /\ \E h \in {header_from_data(last.ret)} :
       \E z \in {BlockSize(header_from_data(last.ret))
                   + BlockSize(header_to_header(S0, header_from_data(last.ret)))} :
          /\ 1000 * z > 1225 * BlockSize(h)
          /\ \E x \in ListedHeaders :
                /\ x # header_to_header(S0, h)
                /\ BlockSize(x) = z

\* the allocator before mm_init, over the arena of the run at hand
Fresh ==
    [mem |-> [j \in 0 .. (arena - 1) |-> fill],
     free_lists |-> [i \in Lists |-> NULL], brk |-> 0, acc |-> {},
     garbage |-> fill, hung |-> FALSE, fatal |-> FALSE]

\* the allocator after mm_init; p1 = malloc(1); free(p1); p2 = malloc(2000);
\* free(p2)
AfterFourCalls ==
    Let(malloc(mm_init(Fresh, TRUE).s, 1, TRUE), LAMBDA m1 :
    Let(malloc(free(m1.s, m1.r), 2000, TRUE), LAMBDA m2 :
    free(m2.s, m2.r)))

\* C23: from a fresh mm_init, after p1 = malloc(1); free(p1);
\* p2 = malloc(2000); free(p2), the call malloc(16) takes the 2016-byte free
\* block of list 4 and splits it into an allocated block of 32 bytes and a
\* free block of 1984 bytes linked in list 4.
C23_TakesLargeBlock ==
    [][(/\ status = "ready" /\ last.op = "none" /\ live = {}
        /\ \E a \in {AfterFourCalls} :
              mem = a.mem /\ free_lists = a.free_lists /\ brk = a.brk
        /\ last'.op = "malloc" /\ last'.n = 16)
          => \E h \in {header_from_data(last'.ret)} :
                /\ status' = "ready"
                /\ IsFree(h)
                /\ BlockSize(h) = 2016
                /\ ListsOf(h) = {4}
                /\ ~IsFree(h)'
                /\ BlockSize(h)' = 32
                /\ IsFree(h + 32)'
                /\ BlockSize(h + 32)' = 1984
                /\ ListsOf(h + 32)' = {4}]_vars

\* C31: after a successful increase_heap(s) the new block's header is at the
\* address the epilogue had, with size s and A = 1; the new epilogue
\* {0, A, E} is at that address + s, in the last 8 bytes of the grown heap,
\* with P = 1; every word below the old epilogue (the headers, footers and
\* links of the blocks that existed) and the six list heads are unchanged.
C31_GrowthAppendsOnly ==
    [][(last'.op \in {"malloc", "calloc"} /\ last'.how = "grown"
        /\ status' = "ready") =>
         \E size \in {RoundedRequest(RequestOf(last'))} :
         \E e \in {epilogue} :
            /\ last'.ret = data_from_header(e)
            /\ BlockSize(e)' = size
            /\ ~IsFree(e)'
            /\ ~d_epilogue(Word(e))'
            /\ e + size = mm_heap_lo + brk' - DIVIDER_SIZE
            /\ d_size(Word(e + size))' = 0
            /\ d_alloc(Word(e + size))'
            /\ d_epilogue(Word(e + size))'
            /\ d_prev_alloc(Word(e + size))'
            /\ \A j \in 0 .. (Idx(e) - 1) : mem'[j] = mem[j]
            /\ free_lists' = free_lists]_vars

\* the heap has been extended behind a free block that was too small
C31_GrownBehindFreeBlock ==
    /\ last.op \in {"malloc", "calloc"}
    /\ last.how = "grown"
    /\ status = "ready"
    /\ Len(Blocks) >= 2
    /\ Blocks[Len(Blocks)] = header_from_data(last.ret)
    /\ IsFree(Blocks[Len(Blocks) - 1])

\* free(p) merges the block with the one before it / the one after it
MergesBack(p) == ~d_prev_alloc(Word(header_from_data(p)))
MergesForward(p) == IsFree(header_to_header(S0, header_from_data(p)))

\* the header of the free block free(p) leaves
FreedHeader(p) ==
    IF MergesBack(p)
    THEN PAdd(PSub(PSub(header_from_data(p), DIVIDER_SIZE),
                   d_size(Word(PSub(header_from_data(p), DIVIDER_SIZE)))),
              DIVIDER_SIZE)
    ELSE header_from_data(p)

\* the list nodes of the neighbours free(p) unlinks
Unlinked(p) ==
    (IF MergesBack(p) THEN {free_block_from_header(FreedHeader(p))} ELSE {})
    \cup (IF MergesForward(p)
          THEN {free_block_from_header(header_to_header(S0, header_from_data(p)))}
          ELSE {})

\* the sequence seq without the members of the set gone
Without(seq, gone) ==
    LET kept(x) == x \notin gone
    IN  SelectSeq(seq, kept)

\* C32: after free(p) the resulting (possibly merged) free block is the head
\* of the list for its size with a null prev link, followed by the members
\* that list had before, less the merged neighbours, in their order; every
\* other list holds its former members, less the merged neighbours, in their
\* order.
C32_InsertionIsLIFO ==
    [][(last'.op = "free" /\ last'.p # NULL /\ status' = "ready") =>
         \E m \in {FreedHeader(last'.p)} :
         \E gone \in {Unlinked(last'.p)} :
         \E old \in {[i \in Lists |-> Without(ListNodes(i), gone)]} :
            /\ IsFree(m)'
            /\ Word(prev_free_block(free_block_from_header(m)))' = NULL
            /\ \A i \in Lists :
                  ListNodes(i)' =
                     IF i = find_free_list(BlockSize(m)')
                     THEN <<free_block_from_header(m)>> \o old[i]
                     ELSE old[i]]_vars

\* a free has merged the block into the one before it and put the result at
\* the head of a list that holds another block
C32_MergedBlockPutFirst ==
    /\ last.op = "free"
    /\ last.p # NULL
    /\ status = "ready"
    /\ \E i \in Lists :
          /\ Len(ListNodes(i)) >= 2
          /\ header_from_free_block(ListNodes(i)[1]) < header_from_data(last.p)
          /\ header_from_data(last.p)
                < header_from_free_block(ListNodes(i)[1])
                    + BlockSize(header_from_free_block(ListNodes(i)[1]))

\* the headers of the free blocks: those the walk meets and those linked
FreeHeaders ==
    {Blocks[k] : k \in {j \in 1 .. Len(Blocks) : IsFree(Blocks[j])}}
    \cup ListedHeaders

\* C33: once mm_init has succeeded the prologue word is {8, A, P, N}, the
\* word in the last 8 bytes of the heap is an epilogue with size 0, A = 1 and
\* E = 1 at which the walk ends, and every free block lies wholly between the
\* two and is not an epilogue.
C33_SentinelsKept ==
    Initialised =>
        /\ Word(prologue) = make_divider(DIVIDER_SIZE, TRUE, TRUE, TRUE, FALSE)
        /\ d_size(Word(epilogue)) = 0
        /\ d_alloc(Word(epilogue))
        /\ d_epilogue(Word(epilogue))
        /\ WalkEnd = epilogue
        /\ \A h \in FreeHeaders :
              /\ h > prologue
              /\ h + BlockSize(h) <= epilogue
              /\ ~d_epilogue(Word(h))
              /\ BlockSize(h) > 0

\* a free has left the block next to the prologue and the block next to the
\* epilogue free
C33_FreeNextToSentinels ==
    /\ last.op = "free"
    /\ last.p # NULL
    /\ status = "ready"
    /\ Len(Blocks) >= 2
    /\ IsFree(Blocks[1])
    /\ IsFree(Blocks[Len(Blocks)])
    /\ header_from_data(last.p) \in {Blocks[1], Blocks[Len(Blocks)]}

\* C34: a call that allocates extends the heap (or asks for the extension)
\* only when no free block of size >= s exists in the heap or in a list;
\* when one exists the call is served from a free block and the heap size is
\* unchanged.
C34_GrowsOnlyWithoutFit ==
    [][(last'.op \in {"malloc", "realloc", "calloc"}
        /\ last'.how \in {"placed", "split", "grown", "failed"}) =>
         \E size \in {RoundedRequest(RequestOf(last'))} :
         \E fit \in {{h \in FreeHeaders : BlockSize(h) >= size}} :
            /\ last'.how \in {"grown", "failed"} => fit = {}
            /\ fit # {} =>
                  /\ last'.how \in {"placed", "split"}
                  /\ brk' = brk
                  /\ status' = "ready" => header_from_data(last'.ret) \in fit]_vars

\* a malloc has been served, without growth, by splitting a block of more
\* than 2916 bytes, which was linked in the last list
C34_ServedFromLastList ==
    /\ last.op = "malloc"
    /\ last.how = "split"
    /\ status = "ready"
    /\ BlockSize(header_from_data(last.ret))
         + BlockSize(header_to_header(S0, header_from_data(last.ret)))
           > free_list_sizes[SEGRAGATED_SIZES - 1]

\* every header (the epilogue's too) with P = 0 has a free block right before
\* it whose size is in the word before the header
ClearedPBitsSound ==
    Initialised =>
      \A k \in 1 .. (Len(Blocks) + 1) :
         \E h \in {IF k <= Len(Blocks) THEN Blocks[k] ELSE epilogue} :
            ~d_prev_alloc(Word(h)) =>
               /\ k > 1
               /\ IsFree(Blocks[k - 1])
               /\ d_size(Word(PSub(h, DIVIDER_SIZE))) = BlockSize(Blocks[k - 1])

\* C35: in every state a header with P = 0 has a free block right before it
\* whose footer, in the word before the header, carries that block's size;
\* and free does not take the last payload word of an allocated block before
\* the freed one for a footer.
C35_FooterReadOnlyOfFreeBlock ==
    [][/\ ClearedPBitsSound'
       /\ (last'.op = "free" /\ last'.p # NULL) =>
            \A k \in 2 .. Len(Blocks) :
               (Blocks[k] = header_from_data(last'.p) /\ ~IsFree(Blocks[k - 1]))
                  => PSub(Blocks[k], DIVIDER_SIZE) \notin acc']_vars

\* C36: each of the six lists is a well-formed doubly linked list: the walk
\* from the head ends in null without meeting a node twice, the head's prev
\* link is null, the prev link of every other node is the node before it, and
\* no node is in two lists; no call is caught in an endless walk.
C36_ListsWellFormed ==
    /\ status # "hung"
    /\ \A i \in Lists :
          \E nodes \in {ListNodes(i)} :
             /\ Len(nodes) < arena
             /\ Len(nodes) > 0 =>
                   /\ Word(prev_free_block(nodes[1])) = NULL
                   /\ Word(next_free_block(nodes[Len(nodes)])) = NULL
             /\ \A j \in 1 .. (Len(nodes) - 1) :
                   /\ Word(next_free_block(nodes[j])) = nodes[j + 1]
                   /\ Word(prev_free_block(nodes[j + 1])) = nodes[j]
             /\ \A j, k \in 1 .. Len(nodes) : j # k => nodes[j] # nodes[k]
             /\ \A i2 \in Lists \ {i} :
                   \A j \in 1 .. Len(nodes), k \in 1 .. arena :
                      k <= Len(ListNodes(i2)) => nodes[j] # ListNodes(i2)[k]

\* a block has been taken whole from a list in which a larger block stays
\* linked, while another list holds a block too
C36_TakenFromSharedList ==
    /\ last.op = "malloc"
    /\ last.how = "placed"
    /\ status = "ready"
    /\ \E i \in Lists :
          /\ Len(ListNodes(i)) >= 1
          /\ find_free_list(BlockSize(header_from_data(last.ret))) = i
          /\ BlockSize(header_from_free_block(ListNodes(i)[1]))
                > BlockSize(header_from_data(last.ret))
          /\ \E i2 \in Lists \ {i} : Len(ListNodes(i2)) >= 1

\* C37: the block a call hands out for a rounded request s has size s when
\* it comes from heap extension or from a split, and s or s + 16 when a free
\* block is taken whole.
C37_BlockSizeWithinSixteen ==
    [][(Searched(last') /\ status' = "ready") =>
         \E size \in {RoundedRequest(RequestOf(last'))} :
         \E h \in {header_from_data(last'.ret)} :
            /\ last'.how \in {"grown", "split"} => BlockSize(h)' = size
            /\ last'.how = "placed" => BlockSize(h)' \in {size, size + 16}]_vars

\* a free block 16 bytes larger than the request has been taken whole
C37_TakenWholeWithSlack ==
    /\ Searched(last)
    /\ last.how = "placed"
    /\ status = "ready"
    /\ BlockSize(header_from_data(last.ret))
         = RoundedRequest(RequestOf(last)) + 16

\* what the checker looks for, on the current heap: the walk from the first
\* block ends at the epilogue and every block on it is in the heap, every
\* free block has a footer equal to its header and is linked in the list
\* find_free_list selects for its size, and every node of every list is in
\* the heap and heads a block with A = 0
HeapAsChecked ==
    /\ \A k \in 1 .. Len(Blocks) :
          /\ in_heap(S0, Blocks[k])
          /\ IsFree(Blocks[k]) =>
                /\ compare_divider(Blocks[k], footer_from_header(S0, Blocks[k]))
                /\ find_free_list(BlockSize(Blocks[k])) \in ListsOf(Blocks[k])
    /\ (IF Blocks = <<>> THEN header_to_header(S0, prologue)
                         ELSE header_to_header(S0, Blocks[Len(Blocks)])) = epilogue
    /\ d_epilogue(Word(epilogue))
    /\ \A i \in Lists : \A j \in 1 .. Len(ListNodes(i)) :
          /\ in_heap(S0, ListNodes(i)[j])
          /\ IsFree(header_from_free_block(ListNodes(i)[j]))

\* C38: compiled with DEBUG, mm_checkheap returns true whenever it is called
\* between valid calls: it ends, reads only inside the heap, leaves the heap
\* words, the list heads and the break as they were, and the heap it accepted
\* has every block in the heap, every free block with header equal to footer
\* and linked in the list for its size, and every list node in the heap with
\* A = 0.
C38_CheckerAcceptsEveryHeap ==
    /\ [][last'.op = "mm_checkheap" =>
             /\ status' = "ready"
             /\ last'.ret = 1
             /\ OUTSIDE \notin acc'
             /\ \A a \in acc' : in_heap(S0, a)
             /\ mem' = mem
             /\ free_lists' = free_lists
             /\ brk' = brk]_vars
    /\ [](last.op = "mm_checkheap" => HeapAsChecked)

\* the checker has accepted a heap with a live block between two free blocks
C38_CheckedMixedHeap ==
    /\ last.op = "mm_checkheap"
    /\ last.ret = 1
    /\ status = "ready"
    /\ \E k \in 2 .. (Len(Blocks) - 1) :
          /\ data_from_header(Blocks[k]) \in live
          /\ IsFree(Blocks[k - 1])
          /\ IsFree(Blocks[k + 1])

====
